---- MODULE Spec2Model ----
(***************************************************************************)
(* tinypic: the page pipeline of src/core (processor.py, compressor.py,    *)
(* cropper.py, splitter.py).                                               *)
(*                                                                         *)
(* Rasters are abstracted: a decoded image is its mode, its size, the      *)
(* position of its top-left pixel in the decoded source (ox, oy) and the   *)
(* solid marks (rectangles, PIL boxes: left, top, right, bottom, right and *)
(* bottom exclusive) that differ from its background.  Two rasters are the *)
(* same pixels exactly when these records are equal.  The one pixel of     *)
(* smear that PIL's BoxBlur(1) adds to the edge of a mark is left out.     *)
(* crop_power is counted in tenths, the step of the power slider           *)
(* (src/gui/main_window.py:345).                                           *)
(***************************************************************************)
EXTENDS Integers, Sequences, FiniteSets, TLC

\* ---------------------------------------------------------------- bounds
MaxTasks == 3
MaxThreads == 2
MaxResults == 5
MaxWidth == 7
MaxSample == 2
MaxBoxes == 3
MaxBytes == 64

\* ------------------------------------------------------ program constants
DEFAULT_QUALITY == 72
QUALITY_FLOOR == 60
SINGLE_MARGIN == 5
SPLIT_MARGIN == 8
CORNER_INSET == 5

Min(a, b) == IF a < b THEN a ELSE b
Max(a, b) == IF a > b THEN a ELSE b

\* Python's int(): truncation toward zero of the rational n / d, d > 0.
IntTrunc(n, d) == IF n >= 0 THEN n \div d ELSE -((-n) \div d)

RECURSIVE SumSeq(_)
SumSeq(s) == IF s = <<>> THEN 0 ELSE Head(s) + SumSeq(Tail(s))

Range(s) == {s[k] : k \in 1..Len(s)}

\* ------------------------------------------------------------- rasters
\* PIL Image.open on the raw bytes: fails on bytes that hold no image.
ImageOpen(image_data) ==
    IF image_data.readable
    THEN [ok |-> TRUE,
          img |-> [mode |-> image_data.mode, w |-> image_data.w, h |-> image_data.h,
                   ox |-> 0, oy |-> 0, bg |-> image_data.bg,
                   rects |-> image_data.rects, neutral |-> image_data.neutral]]
    ELSE [ok |-> FALSE]

\* The part of mark r inside box (l, t, rr, b), in the raster's coordinates;
\* <<>> when nothing of it is inside.
ClipRect(r, l, t, rr, b) ==
    LET nl == Max(r[1], l)
        nt == Max(r[2], t)
        nr == Min(r[3], rr)
        nb == Min(r[4], b)
    IN IF nl < nr /\ nt < nb THEN <<nl, nt, nr, nb>> ELSE <<>>

RECURSIVE ClipRects(_, _, _, _, _)
ClipRects(rs, l, t, rr, b) ==
    IF rs = <<>> THEN <<>>
    ELSE LET c == ClipRect(Head(rs), l, t, rr, b)
             rest == ClipRects(Tail(rs), l, t, rr, b)
         IN IF c = <<>> THEN rest ELSE <<c>> \o rest

ShiftRect(r, dx, dy) == <<r[1] - dx, r[2] - dy, r[3] - dx, r[4] - dy>>

\* PIL Image.crop((l, t, r, b)), for a box inside the raster.
ImageCrop(img, l, t, rr, b) ==
    LET kept == ClipRects(img.rects, l, t, rr, b)
    IN [img EXCEPT !.w = rr - l, !.h = b - t, !.ox = img.ox + l, !.oy = img.oy + t,
                   !.rects = [k \in 1..Len(kept) |-> ShiftRect(kept[k], l, t)]]

\* The mode normalisation of compress_image and split_and_compress:
\* alpha and palette modes are flattened to RGB, L stays, the rest become RGB.
NormalizeMode(img) ==
    IF img.mode \in {"RGBA", "LA", "P"} THEN [img EXCEPT !.mode = "RGB"]
    ELSE IF img.mode = "L" THEN img
    ELSE IF img.mode # "RGB" THEN [img EXCEPT !.mode = "RGB"]
    ELSE img

\* img.convert('L')
ConvertL(img) == [img EXCEPT !.mode = "L"]

\* ---------------------------------------------------------- compressor.py
\* The sampled near-neutral ratio exceeds 0.92 exactly for a raster marked neutral.
is_grayscale_image(img) ==
    IF img.mode = "L" THEN TRUE
    ELSE IF img.mode # "RGB" THEN FALSE
    ELSE img.neutral

\* The estimate with the two middle steps exchanged.
EstimateStepsExchanged(image_data) ==
    IF ~image_data.readable THEN 80
    ELSE IF image_data.format # "JPEG" THEN 95
    ELSE IF image_data.w * image_data.h = 0 THEN 80
    ELSE IF image_data.nbytes * 100 < 15 * image_data.w * image_data.h THEN 60
    ELSE IF image_data.nbytes * 100 < 25 * image_data.w * image_data.h THEN 80
    ELSE IF image_data.nbytes * 10 < 4 * image_data.w * image_data.h THEN 70
    ELSE IF image_data.nbytes * 10 < 6 * image_data.w * image_data.h THEN 85
    ELSE 90

\* compressor.py lines 61-87; a JPEG without pixels raises at the division.
estimate_jpeg_quality(image_data) ==
    IF ~image_data.readable THEN 80
    ELSE IF image_data.format # "JPEG" THEN 95
    ELSE LET pixels == image_data.w * image_data.h
             n == image_data.nbytes
         IN IF pixels = 0 THEN 80
            ELSE IF n * 100 < 15 * pixels THEN 60
            ELSE IF n * 100 < 25 * pixels THEN 70
            ELSE IF n * 10 < 4 * pixels THEN 80
            ELSE IF n * 10 < 6 * pixels THEN 85
            ELSE 90

\* The reduction below the estimate without the floor of line 116.
SingleQualityNoFloor(quality, original_quality) ==
    Min(quality, original_quality - SINGLE_MARGIN)

\* compress_image lines 111-116.
SingleQuality(quality, original_quality) ==
    Max(QUALITY_FLOOR, Min(quality, original_quality - SINGLE_MARGIN))

\* The halves given the margin of an unsplit page.
SplitQualitySingleMargin(base_quality, original_quality) ==
    Max(QUALITY_FLOOR, Min(base_quality, original_quality - SINGLE_MARGIN))

\* split_and_compress lines 87-89.
SplitQuality(base_quality, original_quality) ==
    Max(QUALITY_FLOOR, Min(base_quality, original_quality - SPLIT_MARGIN))

\* The length of an encoded buffer: the encoder is not modelled, the length
\* stands for it and grows with the raster and the quality.
JpegLen(img, quality) == 1 + (img.w * img.h * quality) \div 100

\* img.save(format='JPEG', quality, optimize, [subsampling, progressive]) and
\* the lossless optimisation that follows, which keeps the picture.
JpegSave(img, quality) ==
    [w |-> img.w, h |-> img.h, ox |-> img.ox, oy |-> img.oy, mode |-> img.mode,
     quality |-> quality,
     subsampling |-> IF img.mode = "RGB" THEN "4:2:0" ELSE "none",
     progressive |-> (img.mode = "RGB"),
     len |-> JpegLen(img, quality)]

\* ------------------------------------------------------------- cropper.py
\* A threshold that rises with the power.
ThresholdRising(power) == IntTrunc(2400 + power * 64, 10)

\* int(240 - (power * 64)), the power in tenths.
threshold_from_power(power) == IntTrunc(2400 - power * 64, 10)

\* gray.point(lambda p: 255 if p <= threshold else 0), lines 111 and 159, for
\* one pixel: 255 marks a pixel of content.
Binarize(p, threshold) == IF p <= threshold THEN 255 ELSE 0

\* group_close_values lines 16-37; max_dist_tolerated in thousandths of a pixel.
RECURSIVE GroupLoop(_, _, _, _, _, _)
GroupLoop(vals, i, group_start, group_end, groups, max_dist_tolerated) ==
    IF i > Len(vals)
    THEN IF group_start # -1 THEN Append(groups, <<group_start, group_end>>) ELSE groups
    ELSE LET dist == vals[i] - group_end
         IN IF group_start = -1
            THEN GroupLoop(vals, i + 1, vals[i], vals[i], groups, max_dist_tolerated)
            ELSE IF dist * 1000 <= max_dist_tolerated
            THEN GroupLoop(vals, i + 1, group_start, vals[i], groups, max_dist_tolerated)
            ELSE GroupLoop(vals, i + 1, -1, -1,
                           Append(groups, <<group_start, group_end>>), max_dist_tolerated)

group_close_values(vals, max_dist_tolerated) ==
    GroupLoop(vals, 1, -1, 0, <<>>, max_dist_tolerated)

InRect(r, x, y) == r[1] <= x /\ x < r[3] /\ r[2] <= y /\ y < r[4]

Covered(rects, x, y) == \E k \in 1..Len(rects) : InRect(rects[k], x, y)

\* A sampled pixel is bright when it shows a bright background or a bright mark.
BrightAt(img, x, y) == (img.bg = "white") # Covered(img.rects, x, y)

\* detect_background_color lines 40-56: getpixel raises IndexError on a raster
\* with fewer than six columns or rows.
detect_background_color(img) ==
    IF img.w <= CORNER_INSET \/ img.h <= CORNER_INSET THEN [ok |-> FALSE]
    ELSE LET coords == <<<<CORNER_INSET, CORNER_INSET>>,
                         <<img.w - CORNER_INSET - 1, CORNER_INSET>>,
                         <<CORNER_INSET, img.h - CORNER_INSET - 1>>,
                         <<img.w - CORNER_INSET - 1, img.h - CORNER_INSET - 1>>>>
             total == SumSeq([k \in 1..4 |->
                          IF BrightAt(img, coords[k][1], coords[k][2]) THEN 255 ELSE 0])
         IN [ok |-> TRUE, color |-> IF total > 128 * 4 THEN "white" ELSE "black"]

\* The pixels at or below the threshold after the grayscale conversion, the
\* inversion of a dark page and autocontrast: the marks when the background
\* was detected as it is, and otherwise everything but the marks, taken here
\* as the whole frame.
ContentRects(img, bg_color) ==
    IF bg_color = img.bg THEN img.rects
    ELSE IF img.rects = <<>> THEN <<>>
    ELSE <<<<0, 0, img.w, img.h>>>>

RectArea(r) == IF r = <<>> THEN 0 ELSE (r[3] - r[1]) * (r[4] - r[2])

\* One strip of ignore_pixels_near_edge: cleared when its share of content
\* pixels is above 0 and below 2%; keep is the rest of the frame.
ClearStrip(rects, strip, keep) ==
    LET area == RectArea(strip)
        inside == ClipRects(rects, strip[1], strip[2], strip[3], strip[4])
        count == SumSeq([k \in 1..Len(inside) |-> RectArea(inside[k])])
    IN IF strip[3] <= strip[1] \/ strip[4] <= strip[2] THEN rects
       ELSE IF 0 < count /\ count * 50 < area
       THEN ClipRects(rects, keep[1], keep[2], keep[3], keep[4])
       ELSE rects

\* ignore_pixels_near_edge lines 59-76: top, bottom, left, right, in this order.
ignore_pixels_near_edge(rects, w, h) ==
    LET hi == (2 * h) \div 100
        hb == (98 * h) \div 100
        wi == (2 * w) \div 100
        wb == (98 * w) \div 100
        r1 == ClearStrip(rects, <<0, 0, w, hi>>, <<0, hi, w, h>>)
        r2 == ClearStrip(r1, <<0, hb, w, h>>, <<0, 0, w, hb>>)
        r3 == ClearStrip(r2, <<0, 0, wi, h>>, <<wi, 0, w, h>>)
    IN ClearStrip(r3, <<wb, 0, w, h>>, <<0, 0, wb, h>>)

MinOf(S) == CHOOSE x \in S : \A y \in S : x <= y
MaxOf(S) == CHOOSE x \in S : \A y \in S : x >= y

\* PIL getbbox of the binarised raster: <<>> when no pixel is set.
GetBBox(rects) ==
    IF rects = <<>> THEN <<>>
    ELSE <<MinOf({rects[k][1] : k \in 1..Len(rects)}),
           MinOf({rects[k][2] : k \in 1..Len(rects)}),
           MaxOf({rects[k][3] : k \in 1..Len(rects)}),
           MaxOf({rects[k][4] : k \in 1..Len(rects)})>>

Ok(img) == [ok |-> TRUE, img |-> img]

\* An exception leaves the function.
Raised == [ok |-> FALSE]

\* crop_margins lines 116-121.
CropToBBox(img, bbox) ==
    IF bbox # <<>> THEN Ok(ImageCrop(img, bbox[1], bbox[2], bbox[3], bbox[4])) ELSE Ok(img)

\* crop_margins lines 96-121, the background known.
MarginsWithBackground(img, bg_color) ==
    IF ~bg_color.ok THEN Raised
    ELSE CropToBBox(img, GetBBox(ignore_pixels_near_edge(
                             ContentRects(img, bg_color.color), img.w, img.h)))

\* crop_margins with the guard of line 90 strict: power 0 goes on to crop.
CropMarginsBelowZero(img, power) ==
    IF power < 0 THEN Ok(img)
    ELSE MarginsWithBackground(img, detect_background_color(img))

\* crop_margins lines 79-121.
crop_margins(img, power) ==
    IF power <= 0 THEN Ok(img)
    ELSE MarginsWithBackground(img, detect_background_color(img))

\* box_intersect lines 258-265; boxes are (x0, x1, y0, y1), max_dist in
\* thousandths of a pixel.
box_intersect(box1, box2, max_dist) ==
    ~(\/ box2[1] * 1000 - max_dist[1] > box1[2] * 1000
      \/ box2[2] * 1000 + max_dist[1] < box1[1] * 1000
      \/ box2[3] * 1000 - max_dist[2] > box1[4] * 1000
      \/ box2[4] * 1000 + max_dist[2] < box1[3] * 1000)

\* The boxes of rest that intersect g1 (hit) or do not (~hit), lines 234-239.
Partition(g1, rest, max_dist, hit) ==
    LET Test(g2) == box_intersect(g1, g2, max_dist) = hit
    IN SelectSeq(rest, Test)

\* merge_boxes lines 242-248.
MergedBox(all_boxes) ==
    <<MinOf({b[1] : b \in all_boxes}), MaxOf({b[2] : b \in all_boxes}),
      MinOf({b[3] : b \in all_boxes}), MaxOf({b[4] : b \in all_boxes})>>

\* merge_boxes lines 224-255; j counts from 0 as in the source.
RECURSIVE MergeLoop(_, _, _)
RECURSIVE MergeStep(_, _, _, _, _)

\* The scan going on from j + 1 after a merge, not from 0 again.
MergeStepNoRestart(boxes, j, max_dist, intersecting, other) ==
    IF intersecting # <<>>
    THEN MergeLoop(SubSeq(boxes, 1, j) \o other
                       \o <<MergedBox(Range(<<boxes[j + 1]>> \o intersecting))>>,
                   j + 1, max_dist)
    ELSE MergeLoop(boxes, j + 1, max_dist)

\* The scan ending one box early: the last two boxes are never compared.
MergeLoopStopsEarly(boxes, j, max_dist) ==
    IF ~(j < Len(boxes) - 2) THEN boxes
    ELSE MergeStep(boxes, j, max_dist,
                   Partition(boxes[j + 1], SubSeq(boxes, j + 2, Len(boxes)), max_dist, TRUE),
                   Partition(boxes[j + 1], SubSeq(boxes, j + 2, Len(boxes)), max_dist, FALSE))

MergeStep(boxes, j, max_dist, intersecting, other) ==
    IF intersecting # <<>>
    THEN MergeLoop(SubSeq(boxes, 1, j) \o other
                       \o <<MergedBox(Range(<<boxes[j + 1]>> \o intersecting))>>,
                   0, max_dist)
    ELSE MergeLoop(boxes, j + 1, max_dist)

MergeLoop(boxes, j, max_dist) ==
    IF ~(j < Len(boxes) - 1) THEN boxes
    ELSE MergeStep(boxes, j, max_dist,
                   Partition(boxes[j + 1], SubSeq(boxes, j + 2, Len(boxes)), max_dist, TRUE),
                   Partition(boxes[j + 1], SubSeq(boxes, j + 2, Len(boxes)), max_dist, FALSE))

merge_boxes(boxes, max_dist) == MergeLoop(boxes, 0, max_dist)

\* A pixel of gray.crop(...): the part of the box outside the raster is
\* filled with 0, which is at or below every threshold.
WindowContent(rects, w, h, x, y) ==
    x < 0 \/ y < 0 \/ x >= w \/ y >= h \/ Covered(rects, x, y)

\* np.where(row <= threshold)[0] for the row y of the raster, from column x on.
RECURSIVE IndicesFrom(_, _, _, _, _, _, _)
IndicesFrom(rects, w, h, left, right, y, x) ==
    IF x >= right THEN <<>>
    ELSE (IF WindowContent(rects, w, h, x, y) THEN <<x - left>> ELSE <<>>)
         \o IndicesFrom(rects, w, h, left, right, y, x + 1)

\* The segments of row i: (start, end, i, i), line 184.
RowGroups(g, i) == [k \in 1..Len(g) |-> <<g[k][1], g[k][2], i, i>>]

\* crop_page_number lines 179-185: the segments of every row of the window.
RECURSIVE WindowGroups(_, _, _, _, _, _, _, _)
WindowGroups(rects, w, h, left, right, top, window_h, i) ==
    IF i >= window_h THEN <<>>
    ELSE RowGroups(group_close_values(
                       IndicesFrom(rects, w, h, left, right, top + i, left), w * 10), i)
         \o WindowGroups(rects, w, h, left, right, top, window_h, i + 1)

\* The boxes above the largest footprint dropped together with the small ones.
WithinFootprint(boxes, w, h) ==
    LET Test(box) == /\ (box[2] - box[1]) * 1000 >= w * 3
                     /\ (box[4] - box[3]) * 1000 >= h * 6
                     /\ (box[2] - box[1]) * 1000 <= w * 45
                     /\ (box[4] - box[3]) * 100 <= Max(h * 2, 300)
    IN SelectSeq(boxes, Test)

\* crop_page_number lines 193-196.
BigEnough(boxes, w, h) ==
    LET Test(box) == /\ (box[2] - box[1]) * 1000 >= w * 3
                     /\ (box[4] - box[3]) * 1000 >= h * 6
    IN SelectSeq(boxes, Test)

\* crop_page_number line 199.
LowestBoxes(boxes, window_h) ==
    LET Test(box) == box[4] = window_h - 1
    IN SelectSeq(boxes, Test)

\* crop_page_number line 205.
BoxesInRange(boxes, min_y) ==
    LET Test(box) == box[4] >= min_y
    IN SelectSeq(boxes, Test)

\* crop_page_number lines 207-214: the one box to crop above, or <<>>.
ShouldCrop(boxes_in_range, w, h) ==
    IF /\ Len(boxes_in_range) = 1
       /\ (boxes_in_range[1][2] - boxes_in_range[1][1]) * 1000 <= w * 45
       /\ (boxes_in_range[1][4] - boxes_in_range[1][3]) * 100 <= Max(h * 2, 300)
    THEN boxes_in_range[1]
    ELSE <<>>

\* crop_page_number lines 201-214.
PickBox(boxes, lowest_boxes, w, h) ==
    IF lowest_boxes = <<>> THEN <<>>
    ELSE ShouldCrop(BoxesInRange(boxes, MinOf({b[3] : b \in Range(lowest_boxes)})), w, h)

\* crop_page_number lines 193-214, from the merged boxes on.
PageNumberBox(boxes, w, h, window_h) == PickBox(boxes, LowestBoxes(boxes, window_h), w, h)

\* crop_page_number lines 218-219: img.crop((0, 0, width, crop_y)).  A box that
\* ends at row 0 gives a raster without rows; one that ends above it is refused.
CropAbove(img, crop_y) ==
    IF crop_y < 0 THEN Raised ELSE Ok(ImageCrop(img, 0, 0, img.w, crop_y))

\* The cut made at the bottom of the content, the mark left in place.
PageNumberCropBelowMark(img, window_h, bot_y_pos, box) ==
    IF box = <<>> THEN Ok(img) ELSE CropAbove(img, bot_y_pos)

\* crop_page_number lines 216-221.
PageNumberCrop(img, window_h, bot_y_pos, box) ==
    IF box = <<>> THEN Ok(img)
    ELSE CropAbove(img, bot_y_pos - (window_h - box[3] + 1))

\* crop_page_number lines 187-221.
PageNumberGroups(img, window_h, bot_y_pos, window_groups) ==
    IF window_groups = <<>> THEN Ok(img)
    ELSE PageNumberCrop(img, window_h, bot_y_pos,
             PageNumberBox(BigEnough(merge_boxes(window_groups, <<img.w * 10, img.h * 2>>),
                                     img.w, img.h),
                           img.w, img.h, window_h))

\* crop_page_number lines 162-221.
PageNumberScan(img, gray, window_h, bw_bbox) ==
    IF bw_bbox = <<>> \/ window_h <= 0 THEN Ok(img)
    ELSE PageNumberGroups(img, window_h, bw_bbox[4],
             WindowGroups(gray, img.w, img.h, bw_bbox[1], bw_bbox[3],
                          bw_bbox[4] - window_h, window_h, 0))

\* crop_page_number lines 147-221.
PageNumberWindow(img, gray) ==
    PageNumberScan(img, gray, (img.h * 25) \div 1000,
                   GetBBox(ignore_pixels_near_edge(gray, img.w, img.h)))

\* crop_page_number lines 145-221, the background known.
PageNumberWithBackground(img, bg_color) ==
    IF ~bg_color.ok THEN Raised
    ELSE PageNumberWindow(img, ContentRects(img, bg_color.color))

\* crop_page_number lines 124-221.
crop_page_number(img, power) ==
    IF power <= 0 THEN Ok(img)
    ELSE PageNumberWithBackground(img, detect_background_color(img))

\* apply_crop lines 289-293.
ApplyPageCrop(margins, mode, power) ==
    IF ~margins.ok THEN margins
    ELSE IF mode = "margins+page" THEN crop_page_number(margins.img, power)
    ELSE margins

\* apply_crop lines 268-293.
apply_crop(img, mode, power) ==
    IF mode = "none" \/ power <= 0 THEN Ok(img)
    ELSE ApplyPageCrop(IF mode \in {"margins", "margins+page"}
                       THEN crop_margins(img, power) ELSE Ok(img),
                       mode, power)

\* ---------------------------------------------------- compress_image
\* The raster encoded in the mode it was decoded in.
KeepMode(is_gray, img) == img

\* compressor.py lines 138-141 and processor.py lines 120-124.
GrayIf(is_gray, img) == IF is_gray /\ img.mode = "RGB" THEN ConvertL(img) ELSE img

\* compress_image lines 143-178; the dict of statistics keeps the fields
\* that do not repeat the data.
CompressEncode(image_data, original_quality, actual_quality, out) ==
    [ok |-> TRUE,
     data |-> JpegSave(out, actual_quality),
     stats |-> [original_size |-> image_data.nbytes,
                is_grayscale |-> (out.mode = "L"),
                quality_used |-> actual_quality,
                original_quality |-> original_quality]]

\* compress_image lines 138-178; a raster without rows cannot be encoded.
CompressCropped(image_data, force_grayscale, original_quality, actual_quality, cropped) ==
    IF ~cropped.ok \/ cropped.img.h = 0 THEN Raised
    ELSE CompressEncode(image_data, original_quality, actual_quality,
             GrayIf(force_grayscale
                        \/ (cropped.img.mode = "RGB" /\ is_grayscale_image(cropped.img)),
                    cropped.img))

\* compress_image lines 118-178.
CompressOpened(image_data, crop_mode, crop_power, force_grayscale, original_quality, actual_quality, opened) ==
    IF ~opened.ok THEN Raised
    ELSE CompressCropped(image_data, force_grayscale, original_quality, actual_quality,
                         apply_crop(NormalizeMode(opened.img), crop_mode, crop_power))

\* compress_image lines 114-178.
CompressAt(image_data, quality, crop_mode, crop_power, force_grayscale, original_quality) ==
    CompressOpened(image_data, crop_mode, crop_power, force_grayscale, original_quality,
                   SingleQuality(quality, original_quality), ImageOpen(image_data))

\* compress_image lines 90-178.
compress_image(image_data, quality, crop_mode, crop_power, force_grayscale) ==
    CompressAt(image_data, quality, crop_mode, crop_power, force_grayscale,
               estimate_jpeg_quality(image_data))

\* ------------------------------------------------------------ processor.py
is_wide_image(image_data) ==
    IF image_data.readable THEN image_data.w > image_data.h ELSE FALSE

\* split_and_compress lines 120-148: (right half, left half).
SplitEncode(is_gray, actual_quality, right_half, left_half) ==
    IF ~right_half.ok \/ ~left_half.ok THEN Raised
    ELSE IF right_half.img.h = 0 \/ left_half.img.h = 0 THEN Raised
    ELSE [ok |-> TRUE,
          first |-> JpegSave(GrayIf(is_gray, right_half.img), actual_quality),
          second |-> JpegSave(GrayIf(is_gray, left_half.img), actual_quality)]

\* The cut rounded up.
SplitMidCeil(w) == (w + 1) \div 2

\* The column the spread is cut at, line 111.
SplitMid(w) == w \div 2

\* split_and_compress lines 108-148.
SplitHalves(img, actual_quality, crop_mode, crop_power) ==
    SplitEncode(img.mode = "L" \/ (img.mode = "RGB" /\ is_grayscale_image(img)),
                actual_quality,
                apply_crop(ImageCrop(img, SplitMid(img.w), 0, img.w, img.h),
                           crop_mode, crop_power),
                apply_crop(ImageCrop(img, 0, 0, SplitMid(img.w), img.h),
                           crop_mode, crop_power))

\* split_and_compress lines 91-148.
SplitOpened(actual_quality, crop_mode, crop_power, opened) ==
    IF ~opened.ok THEN Raised
    ELSE SplitHalves(NormalizeMode(opened.img), actual_quality, crop_mode, crop_power)

\* split_and_compress lines 80-148.
split_and_compress(image_data, base_quality, crop_mode, crop_power) ==
    SplitOpened(SplitQuality(base_quality, estimate_jpeg_quality(image_data)),
                crop_mode, crop_power, ImageOpen(image_data))

\* process_single_image lines 158-159.
SinglePage(index, original_size, c) ==
    IF c.ok THEN [ok |-> TRUE, value |-> <<index, FALSE, <<c.data>>, original_size>>]
    ELSE Raised

\* process_single_image lines 162-163.
DoublePage(index, original_size, sp) ==
    IF sp.ok
    THEN [ok |-> TRUE, value |-> <<index, TRUE, <<sp.first, sp.second>>, original_size>>]
    ELSE Raised

\* The condition of line 156 without the cover.
TakesSinglePathNoCover(is_cover, image_data) == ~is_wide_image(image_data)

\* The condition of line 156.
TakesSinglePath(is_cover, image_data) == is_cover \/ ~is_wide_image(image_data)

\* process_single_image lines 151-163; args is the tuple
\* (index, image_data, is_cover, quality, crop_mode, crop_power), the value
\* returned the tuple (index, is_double, compressed_list, original_size).
process_single_image(args) ==
    IF TakesSinglePath(args[3], args[2])
    THEN SinglePage(args[1], args[2].nbytes,
                    compress_image(args[2], args[4], args[5], args[6], FALSE))
    ELSE DoublePage(args[1], args[2].nbytes,
                    split_and_compress(args[2], args[4], args[5], args[6]))

\* ------------------------------------------------- the archive's entry names
DigitChars == <<"0", "1", "2", "3", "4", "5", "6", "7", "8", "9">>

\* str(n) for n >= 0, one character per element.
RECURSIVE Str(_)
Str(n) == IF n < 10 THEN <<DigitChars[n + 1]>>
          ELSE Str(n \div 10) \o <<DigitChars[(n % 10) + 1]>>

RECURSIVE ZeroPad(_, _)
ZeroPad(s, width) == IF Len(s) >= width THEN s ELSE ZeroPad(<<"0">> \o s, width)

\* Pages counted from 0.
EntryNameFromZero(page_no, width) ==
    ZeroPad(Str(page_no - 1), width) \o <<".", "j", "p", "g">>

\* f"{page:0{num_digits}d}.jpg", processor.py line 357.
EntryName(page_no, width) == ZeroPad(Str(page_no), width) \o <<".", "j", "p", "g">>

\* The width taken from the number of results, not doubled.
NumDigitsOfResults(results_dict) == Len(Str(Len(results_dict)))

\* len(str(len(results) * 2)), processor.py line 348.
NumDigits(results_dict) == Len(Str(Len(results_dict) * 2))

\* results is a dict: its items in insertion order, as Python keeps them.
Keys(results_dict) == [k \in 1..Len(results_dict) |-> results_dict[k][1]]

RECURSIVE SortAsc(_)
SortAsc(s) ==
    IF s = <<>> THEN <<>>
    ELSE LET m == MinOf(Range(s))
             NotM(x) == x # m
         IN <<m>> \o SortAsc(SelectSeq(s, NotM))

\* The keys as the dict yields them, unsorted: what the writer would iterate
\* had the call of sorted() been left out.
InsertionKeys(results_dict) == Keys(results_dict)

\* sorted(results.keys()), processor.py line 352.
SortedKeys(results_dict) == SortAsc(Keys(results_dict))

\* results[i]
Lookup(results_dict, i) ==
    results_dict[CHOOSE k \in 1..Len(results_dict) : results_dict[k][1] = i]

\* ------------------------------------------------------------- the inputs
FileNames == <<"p01.jpg", "p02.jpg", "p03.jpg", "p04.jpg", "p05.jpg", "p06.jpg",
               "p07.jpg", "p08.jpg">>

NoImage == [readable |-> FALSE, format |-> "", mode |-> "", w |-> 0, h |-> 0,
            nbytes |-> 9, bg |-> "white", rects |-> <<>>, neutral |-> FALSE]

Photo(fmt, mode, w, h, nbytes) ==
    [readable |-> TRUE, format |-> fmt, mode |-> mode, w |-> w, h |-> h,
     nbytes |-> nbytes, bg |-> "white", rects |-> <<>>, neutral |-> FALSE]

\* The pages of a batch: an upright page, a spread of odd width, and a file
\* that holds no image.
PipelineImages == {Photo("JPEG", "RGB", 6, 8, 20), Photo("JPEG", "RGB", 9, 6, 30), NoImage}

\* What process() may be given: a folder, or a file with one of these suffixes.
InputPaths == {"dir", ".zip", ".cbz", ".rar", ".cbr", ".epub", ".pdf"}

RECURSIVE SeqsUpTo(_, _)
SeqsUpTo(S, n) ==
    IF n = 0 THEN {<<>>}
    ELSE LET shorter == SeqsUpTo(S, n - 1)
         IN shorter \cup {Append(q, x) : q \in {t \in shorter : Len(t) = n - 1}, x \in S}

\* --------------------------------------------------------------- the state
VARIABLES
    source,          \* the image files of the input, in natural order
    input_path,      \* what process() is given: "dir" or the suffix, lower case
    SEVENZIP_PATH,   \* whether find_7zip found an executable
    self,            \* the TaskProcessor's fields but _cancelled
    cancelled,       \* TaskProcessor._cancelled
    pc,              \* where the thread that calls process() is
    image_data_list, \* the argument tuples of the tasks
    file_names,
    fstate,          \* the state of each future
    ready,           \* the futures as_completed has still to yield, in order
    yielded,         \* how many futures as_completed has yielded
    cur,             \* the future the loop body holds
    results,         \* the dict results, in insertion order
    completed,
    stats,           \* ProcessorStats
    progress,        \* the calls of progress_callback that returned
    archive,         \* the entries written to the output archive
    wkeys,           \* sorted(results.keys()), the list the writer iterates
    wpos,            \* the writer's place: <<key number, buffer number>>
    num_digits,
    page,
    at_cancel,       \* history: the tasks finished when the flag was set, and where
    fn,              \* the function applied on its own, its arguments and
    fn_args,         \*   what it returned
    fn_ret,
    np_random,       \* numpy's global generator: the values drawn since it was seeded
    calls            \* the calls of is_grayscale_image under way, one for each thread

vars == <<source, input_path, SEVENZIP_PATH, self, cancelled, pc, image_data_list,
          file_names, fstate, ready, yielded, cur, results, completed, stats, progress,
          archive, wkeys, wpos, num_digits, page, at_cancel, fn, fn_args, fn_ret,
          np_random, calls>>

pipeVars == <<source, input_path, SEVENZIP_PATH, self, cancelled, pc, image_data_list,
              file_names, fstate, ready, yielded, cur, results, completed, stats, progress,
              archive, wkeys, wpos, num_digits, page, at_cancel>>

fnVars == <<fn, fn_args, fn_ret>>

grayVars == <<np_random, calls>>

\* The threads that may be inside is_grayscale_image at one time.
GrayThreads == 1..MaxThreads

NoCall == [pc |-> "idle", img |-> <<>>, indices |-> {}, ret |-> FALSE]

N == Len(source)
Tasks == 0..(N - 1)

NoCancel == [set |-> FALSE, finished |-> {}, phase |-> ""]

\* ProcessorStats.__init__, processor.py lines 258-263.
NewStats == [total_files |-> 0, processed_files |-> 0, original_size |-> 0,
             compressed_size |-> 0, errors |-> <<>>]

\* TaskProcessor.__init__, processor.py lines 275-288.
NewProcessor(quality, num_threads, crop_mode, crop_power, progress_callback) ==
    [quality |-> quality, num_threads |-> Max(1, Min(100, num_threads)),
     crop_mode |-> crop_mode, crop_power |-> crop_power,
     progress_callback |-> progress_callback]

FnIdle ==
    /\ fn = "none" /\ fn_args = <<>> /\ fn_ret = <<>>
    /\ np_random = 0
    /\ calls = [t \in GrayThreads |-> NoCall]

PipeInit(src, path, found, processor) ==
    /\ source = src
    /\ input_path = path
    /\ SEVENZIP_PATH = found
    /\ self = processor
    /\ cancelled = FALSE
    /\ pc = "start"
    /\ image_data_list = <<>>
    /\ file_names = <<>>
    /\ fstate = [i \in 0..(Len(src) - 1) |-> "new"]
    /\ ready = <<>>
    /\ yielded = 0
    /\ cur = -1
    /\ results = <<>>
    /\ completed = 0
    /\ stats = NewStats
    /\ progress = <<>>
    /\ archive = <<>>
    /\ wkeys = <<>>
    /\ wpos = <<1, 1>>
    /\ num_digits = 0
    /\ page = 0
    /\ at_cancel = NoCancel

\* A TaskProcessor just constructed, with the defaults of its constructor for
\* quality and cropping, and the input it is about to be given.
\* The input is a folder of up to MaxTasks images, or a path of any kind that
\* holds at most one image.
Init ==
    /\ \/ \E src \in SeqsUpTo(PipelineImages, MaxTasks), n \in 0..MaxThreads,
             cb \in {"none", "reliable", "faulty"} :
             PipeInit(src, "dir", TRUE, NewProcessor(DEFAULT_QUALITY, n, "none", 10, cb))
       \/ \E src \in SeqsUpTo(PipelineImages, 1), path \in InputPaths, found \in BOOLEAN :
             PipeInit(src, path, found, NewProcessor(DEFAULT_QUALITY, 1, "none", 10, "none"))
    /\ FnIdle

\* ------------------------------------------------ the thread calling process()
ARCHIVE_EXTENSIONS == {".zip", ".cbz"}
RAR_EXTENSIONS == {".rar", ".cbr"}
EPUB_EXTENSIONS == {".epub"}

\* A source without images is refused for RAR alone.
RaisesWhenEmptyRarOnly(path) == path \in RAR_EXTENSIONS

\* The sources that are refused when they hold no image: _process_rar lines
\* 425-426 and _process_epub lines 452-453.
RaisesWhenEmpty(path) == path \in RAR_EXTENSIONS \cup EPUB_EXTENSIONS

\* ------------------------------------------------------- the output path
\* Names are sequences of characters.  OUTPUT_SUFFIX, processor.py line 34.
OUTPUT_SUFFIX == <<"_", "t", "i", "n", "y", "p", "i", "c">>

\* The characters of the suffixes process() knows, and of ".pdf".
Chars(ext) ==
    CASE ext = ".zip" -> <<".", "z", "i", "p">>
      [] ext = ".cbz" -> <<".", "c", "b", "z">>
      [] ext = ".rar" -> <<".", "r", "a", "r">>
      [] ext = ".cbr" -> <<".", "c", "b", "r">>
      [] ext = ".epub" -> <<".", "e", "p", "u", "b">>
      [] ext = ".pdf" -> <<".", "p", "d", "f">>

\* str.lower, for the upper-case letters the names here hold.
LowerChar(c) ==
    CASE c = "C" -> "c" [] c = "B" -> "b" [] c = "Z" -> "z" [] OTHER -> c

Lower(s) == [k \in 1..Len(s) |-> LowerChar(s[k])]

\* Path.suffix and Path.stem of a file name: the suffix starts at the last
\* dot, unless that dot is the first or the last character of the name.
LastDot(name) ==
    LET dots == {k \in 1..Len(name) : name[k] = "."}
    IN IF dots = {} THEN 0 ELSE CHOOSE k \in dots : \A j \in dots : j <= k

SuffixAt(name, dot) ==
    IF dot <= 1 \/ dot = Len(name) THEN <<>> ELSE SubSeq(name, dot, Len(name))

PathSuffix(name) == SuffixAt(name, LastDot(name))

PathStem(name) == SubSeq(name, 1, Len(name) - Len(PathSuffix(name)))

\* str.endswith
EndsWith(s, t) == Len(s) >= Len(t) /\ SubSeq(s, Len(s) - Len(t) + 1, Len(s)) = t

\* Lines 389-391 (and 416-418, 444-446): a trailing OUTPUT_SUFFIX is taken
\* off the stem.
StripOutputSuffix(stem) ==
    IF EndsWith(stem, OUTPUT_SUFFIX)
    THEN SubSeq(stem, 1, Len(stem) - Len(OUTPUT_SUFFIX))
    ELSE stem

\* f"{stem}{OUTPUT_SUFFIX}.cbz", lines 371, 392, 419 and 447.
OutputName(stem) == stem \o OUTPUT_SUFFIX \o Chars(".cbz")

\* The suffix, lower case, is one of those of exts.
SuffixIn(suffix, exts) == \E e \in exts : Chars(e) = suffix

\* The name of the file process() writes, in the parent directory of the
\* input, for an input that is a folder or a file of the given name; lines
\* 295-306 with the first statements of the four _process_ methods.
OutputPath(path) ==
    IF path.is_dir THEN [ok |-> TRUE, name |-> OutputName(path.name)]
    ELSE IF SuffixIn(Lower(PathSuffix(path.name)),
                     {".zip", ".cbz", ".rar", ".cbr", ".epub"})
    THEN [ok |-> TRUE, name |-> OutputName(StripOutputSuffix(PathStem(path.name)))]
    ELSE [ok |-> FALSE]

\* The conditions under which process() raises before it builds a task:
\* line 306; extract_rar_with_7zip lines 168-169; the empty RAR or EPUB.
Fatal(path, found, src) ==
    \/ path \notin {"dir"} \cup ARCHIVE_EXTENSIONS \cup RAR_EXTENSIONS \cup EPUB_EXTENSIONS
    \/ path \in RAR_EXTENSIONS /\ ~found
    \/ RaisesWhenEmpty(path) /\ src = <<>>

Finished == {i \in Tasks : fstate[i] = "finished"}
Running == {i \in Tasks : fstate[i] = "running"}
Pending == {i \in Tasks : fstate[i] = "pending"}

\* The argument tuples built from the images of the input, in order:
\* processor.py lines 373-380 (and 401-407, 429-436, 455-460).
TaskList(src, processor) ==
    [k \in 1..Len(src) |-> <<k - 1, src[k], (k - 1 = 0), processor.quality,
                             processor.crop_mode, processor.crop_power>>]

\* process() line 294 and the enumeration of the input (lines 375-380,
\* 403-407, 431-436, 457-460) up to the entry of _process_images_parallel
\* (lines 314-316), or the exception that ends the call before it.
ProcessStart ==
    /\ pc = "start"
    /\ cancelled' = FALSE
    /\ at_cancel' = NoCancel
    /\ IF Fatal(input_path, SEVENZIP_PATH, source)
       THEN /\ pc' = "raised"
            /\ UNCHANGED <<image_data_list, file_names, stats, results>>
       ELSE /\ image_data_list' = TaskList(source, self)
            /\ file_names' = [k \in 1..N |-> FileNames[k]]
            /\ stats' = [NewStats EXCEPT !.total_files = N]
            /\ results' = <<>>
            /\ pc' = "submit"
    /\ UNCHANGED <<source, input_path, SEVENZIP_PATH, self, fstate, ready, yielded, cur,
                   completed, progress, archive, wkeys, wpos, num_digits, page, fnVars, grayVars>>

\* executor.submit, one task of the dict comprehension of line 319.
Submit ==
    /\ pc = "submit"
    /\ \E i \in Tasks :
          /\ fstate[i] = "new"
          /\ \A j \in Tasks : j < i => fstate[j] # "new"
          /\ fstate' = [fstate EXCEPT ![i] = "pending"]
    /\ UNCHANGED <<source, input_path, SEVENZIP_PATH, self,
                   cancelled, pc, image_data_list, file_names, ready,
                   yielded, cur, results, completed, stats, progress, archive, wkeys,
                   wpos, num_digits, page, at_cancel, fnVars, grayVars>>

Orderings(S) ==
    {q \in [1..Cardinality(S) -> S] : \A a, b \in 1..Cardinality(S) : a # b => q[a] # q[b]}

\* as_completed(futures), line 322: the futures already finished are yielded
\* first, in the order of a set; the others as they finish.
AsCompleted ==
    /\ pc = "submit"
    /\ \A i \in Tasks : fstate[i] # "new"
    /\ \E q \in Orderings(Finished) : ready' = q
    /\ yielded' = 0
    /\ completed' = 0
    /\ pc' = "loop"
    /\ UNCHANGED <<source, input_path, SEVENZIP_PATH, self,
                   cancelled, image_data_list, file_names, fstate, cur,
                   results, stats, progress, archive, wkeys, wpos, num_digits, page,
                   at_cancel, fnVars, grayVars>>

\* A loop that never reads the flag.
CancelCheckNever(flag) == FALSE

\* Whether the loop stops at the future it was just given: line 323.
CancelCheck(flag) == flag

\* One turn of the loop header, lines 322-323: the next finished future is
\* yielded and the flag is read; when it is set, the loop goes on to shut the
\* pool down.
LoopYield ==
    /\ pc = "loop"
    /\ ready # <<>>
    /\ cur' = Head(ready)
    /\ ready' = Tail(ready)
    /\ yielded' = yielded + 1
    /\ pc' = IF CancelCheck(cancelled) THEN "shutdown" ELSE "body"
    /\ UNCHANGED <<source, input_path, SEVENZIP_PATH, self,
                   cancelled, image_data_list, file_names, fstate, results,
                   completed, stats, progress, archive, wkeys, wpos, num_digits, page,
                   at_cancel, fnVars, grayVars>>

\* A shutdown that leaves the queued futures in the queue.
ShutdownKeepsQueue(futures) == futures

\* executor.shutdown(wait=False, cancel_futures=True), line 324: every future
\* still in the queue is cancelled, those a worker has taken are left alone.
ShutdownCancelFutures(futures) ==
    [i \in DOMAIN futures |-> IF futures[i] = "pending" THEN "cancelled" ELSE futures[i]]

\* Lines 324-325: the pool is shut down and the loop is left.  The workers
\* run on between the reading of the flag and this call.
Shutdown ==
    /\ pc = "shutdown"
    /\ fstate' = ShutdownCancelFutures(fstate)
    /\ pc' = "exit"
    /\ UNCHANGED <<source, input_path, SEVENZIP_PATH, self,
                   cancelled, image_data_list, file_names, ready, yielded, cur, results,
                   completed, stats, progress, archive, wkeys, wpos, num_digits, page,
                   at_cancel, fnVars, grayVars>>

\* as_completed has yielded every future: the loop ends.
LoopEnd ==
    /\ pc = "loop"
    /\ yielded = N
    /\ pc' = "exit"
    /\ UNCHANGED <<source, input_path, SEVENZIP_PATH, self,
                   cancelled, image_data_list, file_names, fstate, ready,
                   yielded, cur, results, completed, stats, progress, archive, wkeys,
                   wpos, num_digits, page, at_cancel, fnVars, grayVars>>

\* The message alone, the file name left out of the entry.
ErrorEntryUnnamed(names, index, e) == <<"", e>>

\* stats.errors.append(f"{file_names[index]}: {e}"), line 337.
ErrorEntry(names, index, e) == <<names[index + 1], e>>

\* The loop body, lines 327-337, for the outcome out of the future: the
\* result is stored and the callback, when one is set, called, or the error
\* recorded.  A callback is one that returns from every call ("reliable") or
\* one that raises in every call ("faulty"); what it raises is caught by the
\* except clause of line 335 like a failure of the task.
Collect(out) ==
    IF out.ok
    THEN /\ results' = Append(results, out.value)
         /\ completed' = completed + 1
         /\ progress' = IF self.progress_callback = "reliable"
                        THEN Append(progress, <<completed + 1, stats.total_files,
                                                file_names[out.value[1] + 1]>>)
                        ELSE progress
         /\ stats' = IF self.progress_callback = "faulty"
                     THEN [stats EXCEPT !.errors =
                              Append(@, ErrorEntry(file_names, cur, "callback"))]
                     ELSE stats
    ELSE /\ stats' = [stats EXCEPT !.errors =
                         Append(@, ErrorEntry(file_names, cur, "image"))]
         /\ UNCHANGED <<results, completed, progress>>

LoopBody ==
    /\ pc = "body"
    /\ Collect(process_single_image(image_data_list[cur + 1]))
    /\ pc' = "loop"
    /\ UNCHANGED <<source, input_path, SEVENZIP_PATH, self,
                   cancelled, image_data_list, file_names, fstate, ready,
                   yielded, cur, archive, wkeys, wpos, num_digits, page, at_cancel,
                   fnVars, grayVars>>

\* The end of the with block, lines 318 and 339: shutdown(wait=True) returns
\* when no worker runs a task, and _process_images_parallel returns results
\* and stats; its locals (the iterator of as_completed, future, completed)
\* are gone.
ExecutorExit ==
    /\ pc = "exit"
    /\ Running = {}
    /\ ready' = <<>>
    /\ yielded' = 0
    /\ cur' = -1
    /\ completed' = 0
    /\ pc' = "write_open"
    /\ UNCHANGED <<source, input_path, SEVENZIP_PATH, self,
                   cancelled, image_data_list, file_names, fstate, results,
                   stats, progress, archive, wkeys, wpos, num_digits, page, at_cancel,
                   fnVars, grayVars>>

\* _write_results_to_cbz lines 348-352.
WriteOpen ==
    /\ pc = "write_open"
    /\ num_digits' = NumDigits(results)
    /\ page' = 1
    /\ wkeys' = SortedKeys(results)
    /\ wpos' = <<1, 1>>
    /\ archive' = <<>>
    /\ pc' = "write"
    /\ UNCHANGED <<source, input_path, SEVENZIP_PATH, self,
                   cancelled, image_data_list, file_names, fstate, ready,
                   yielded, cur, results, completed, stats, progress, at_cancel, fnVars, grayVars>>

\* Every buffer counted as a processed file.
StatsPerBuffer(st, original_size, compressed, first, last) ==
    [st EXCEPT !.original_size = @ + (IF first THEN original_size ELSE 0),
               !.compressed_size = @ + compressed.len,
               !.processed_files = @ + 1]

\* The statistics after one buffer of a result is written: original_size is
\* added before the first buffer (line 354), compressed_size with each buffer
\* (line 358), processed_files after the last (line 361).
StatsAfterWrite(st, original_size, compressed, first, last) ==
    [st EXCEPT !.original_size = @ + (IF first THEN original_size ELSE 0),
               !.compressed_size = @ + compressed.len,
               !.processed_files = @ + (IF last THEN 1 ELSE 0)]

\* One zf.writestr, lines 353-361, with the statements of the outer loop that
\* come before the first buffer of a result and after its last.
WriteStr ==
    /\ pc = "write"
    /\ wpos[1] <= Len(wkeys)
    /\ LET i == wkeys[wpos[1]]
           r == Lookup(results, i)
           compressed_list == r[3]
           compressed == compressed_list[wpos[2]]
           first == wpos[2] = 1
           last == wpos[2] = Len(compressed_list)
       IN /\ archive' = Append(archive, [name |-> EntryName(page, num_digits),
                                         data |-> compressed, index |-> i])
          /\ stats' = StatsAfterWrite(stats, r[4], compressed, first, last)
          /\ page' = page + 1
          /\ wpos' = IF last THEN <<wpos[1] + 1, 1>> ELSE <<wpos[1], wpos[2] + 1>>
    /\ UNCHANGED <<source, input_path, SEVENZIP_PATH, self,
                   cancelled, pc, image_data_list, file_names, fstate,
                   ready, yielded, cur, results, completed, progress, wkeys, num_digits,
                   at_cancel, fnVars, grayVars>>

\* The archive is closed and process() returns.
WriteClose ==
    /\ pc = "write"
    /\ wpos[1] > Len(wkeys)
    /\ pc' = "done"
    /\ UNCHANGED <<source, input_path, SEVENZIP_PATH, self,
                   cancelled, image_data_list, file_names, fstate, ready,
                   yielded, cur, results, completed, stats, progress, archive, wkeys,
                   wpos, num_digits, page, at_cancel, fnVars, grayVars>>

\* --------------------------------------------------------- the worker threads
\* A worker of the pool takes the oldest queued task; at most num_threads run.
WorkerStart ==
    /\ \E i \in Pending :
          /\ \A j \in Pending : i <= j
          /\ Cardinality(Running) < self.num_threads
          /\ fstate' = [fstate EXCEPT ![i] = "running"]
    /\ UNCHANGED <<source, input_path, SEVENZIP_PATH, self,
                   cancelled, pc, image_data_list, file_names, ready,
                   yielded, cur, results, completed, stats, progress, archive, wkeys,
                   wpos, num_digits, page, at_cancel, fnVars, grayVars>>

\* A task returns or raises: its future is finished and, while as_completed
\* waits, queued for it.
WorkerFinish ==
    /\ \E i \in Running :
          /\ fstate' = [fstate EXCEPT ![i] = "finished"]
          /\ ready' = IF pc \in {"loop", "body"} THEN Append(ready, i) ELSE ready
    /\ UNCHANGED <<source, input_path, SEVENZIP_PATH, self,
                   cancelled, pc, image_data_list, file_names, yielded,
                   cur, results, completed, stats, progress, archive, wkeys, wpos,
                   num_digits, page, at_cancel, fnVars, grayVars>>

\* ------------------------------------------------- the thread of the caller
\* The part of process() the calling thread is in: before the pool exists,
\* in _process_images_parallel, in _write_results_to_cbz, or returned.
Phase(where) ==
    IF where = "start" THEN "start"
    ELSE IF where \in {"submit", "loop", "body", "shutdown", "exit"} THEN "parallel"
    ELSE IF where \in {"write_open", "write"} THEN "assembly"
    ELSE "returned"

\* TaskProcessor.cancel, lines 290-291.
Cancel ==
    /\ ~cancelled
    /\ cancelled' = TRUE
    /\ at_cancel' = [set |-> TRUE, finished |-> Finished, phase |-> Phase(pc)]
    /\ UNCHANGED <<source, input_path, SEVENZIP_PATH, self,
                   pc, image_data_list, file_names, fstate, ready, yielded,
                   cur, results, completed, stats, progress, archive, wkeys, wpos,
                   num_digits, page, fnVars, grayVars>>

Next ==
    \/ ProcessStart
    \/ Submit
    \/ AsCompleted
    \/ LoopYield
    \/ Shutdown
    \/ LoopEnd
    \/ LoopBody
    \/ ExecutorExit
    \/ WriteOpen
    \/ WriteStr
    \/ WriteClose
    \/ WorkerStart
    \/ WorkerFinish
    \/ Cancel

Spec == Init /\ [][Next]_vars

\* ------------------------------------------ the functions applied on their own
\* JPEG pages of 48 pixels at each step of the estimate (0.10, 0.21, 0.31,
\* 0.52 and 0.83 bytes a pixel) and a PNG page.
EstimatePages ==
    {Photo("JPEG", "RGB", 6, 8, n) : n \in {5, 10, 15, 25, 40}}
        \cup {Photo("PNG", "RGB", 6, 8, 40)}

\* Spreads one row high, of every width from 2 on.
Spreads == {Photo("JPEG", "RGB", w, 1, w) : w \in 2..MaxWidth}

\* A page and a spread with drawings inside white margins, a page in gray
\* levels and a page of neutral colours.
DrawnPages ==
    {[Photo("JPEG", "RGB", 20, 20, 160) EXCEPT !.rects = <<<<7, 7, 13, 13>>>>],
     [Photo("JPEG", "RGB", 40, 20, 320)
          EXCEPT !.rects = <<<<7, 7, 13, 13>>, <<27, 7, 33, 13>>>>],
     Photo("JPEG", "L", 6, 8, 25),
     [Photo("JPEG", "RGB", 6, 8, 25) EXCEPT !.neutral = TRUE]}

\* Spreads that hold no colour: one in gray levels, one of neutral colours.
GraySpreads ==
    {Photo("JPEG", "L", 4, 2, 8),
     [Photo("JPEG", "RGB", 4, 2, 8) EXCEPT !.neutral = TRUE]}

\* A page of 100 by 500 pixels with the given marks on white.
Page(rects) ==
    NormalizeMode(ImageOpen([Photo("JPEG", "RGB", 100, 500, 9000) EXCEPT !.rects = rects]).img)

\* The block of drawings of a page, above its foot.
Body == <<20, 50, 80, 400>>

\* Pages for the scan of crop_page_number: a page number under the drawings;
\* two numbers side by side; a number with a second mark beside it that ends
\* higher; a speck too low to count; the drawings alone; a page that is
\* empty but for a mark below its first row; a number with a rule beside it
\* that is wider than a page number; and a number with a speck beside it.
NumberedPages ==
    {Page(<<Body, <<48, 470, 52, 476>>>>),
     Page(<<Body, <<48, 470, 52, 476>>, <<60, 470, 80, 476>>>>),
     Page(<<Body, <<48, 470, 52, 476>>, <<70, 474, 74, 476>>>>),
     Page(<<Body, <<30, 470, 34, 476>>, <<60, 470, 64, 476>>>>),
     Page(<<Body, <<48, 470, 52, 476>>, <<30, 466, 34, 473>>>>),
     Page(<<Body, <<48, 474, 52, 476>>>>),
     Page(<<Body>>),
     Page(<<<<48, 1, 52, 7>>>>)}

FnImages == EstimatePages \cup Spreads \cup DrawnPages \cup GraySpreads \cup {NoImage}

\* The decoded rasters the croppers are given.
FnRasters == {NormalizeMode(ImageOpen(d).img) : d \in {e \in FnImages : e.readable}}

Qualities == 50..100

CropModes == {"none", "margins", "margins+page"}

\* Crop powers in tenths: below, at and above zero, up to the slider's end.
Powers == {-10, -1, 0, 1, 10, 30}

\* The values of a pixel of an 8-bit grayscale image.
GrayLevels == 0..255

\* The positions of the power slider, 0.0 to 3.0 in tenths.
SliderPowers == 0..30

\* Boxes (x0, x1, y0, y1) as the rows of a window give them: two segments of
\* row 0 two columns apart, a pixel of row 1 between them, a third segment of
\* row 0, a pixel of row 2 and a segment of row 3 over the full width.
BoxPool ==
    {<<0, 1, 0, 0>>, <<3, 4, 0, 0>>, <<2, 2, 1, 1>>, <<6, 7, 0, 0>>, <<5, 5, 2, 2>>,
     <<0, 7, 3, 3>>}

\* The numbers of a set in ascending order.
RECURSIVE Ascending(_)
Ascending(S) == IF S = {} THEN <<>> ELSE <<MinOf(S)>> \o Ascending(S \ {MinOf(S)})

\* Sources for the estimate: JPEG files of 16 to 100 pixels and of every
\* length up to MaxBytes, the same files as PNG, and bytes that hold no image.
EstimateSources ==
    {Photo(f, "RGB", w, h, n) : f \in {"JPEG", "PNG"}, w \in {4, 10}, h \in {4, 5, 10},
                                n \in 1..MaxBytes}
        \cup {NoImage}

\* Inputs for the output path: files named a, a_tinypic and _tinypic with
\* every suffix, one suffix in upper case, and folders named a, a_tinypic and
\* a.cbz.
InputNames ==
    LET stems == {<<"a">>, <<"a">> \o OUTPUT_SUFFIX, OUTPUT_SUFFIX}
        suffixes == {Chars(e) : e \in InputPaths \ {"dir"}} \cup {<<".", "C", "B", "Z">>}
    IN {[is_dir |-> FALSE, name |-> st \o su] : st \in stems, su \in suffixes}
           \cup {[is_dir |-> TRUE, name |-> n] :
                     n \in {<<"a">>, <<"a">> \o OUTPUT_SUFFIX, <<"a">> \o Chars(".cbz")}}

CropSettings == {<<"none", 10>>, <<"margins", 10>>, <<"margins+page", 10>>, <<"margins", 0>>}

FnInit ==
    /\ PipeInit(<<>>, "dir", TRUE, NewProcessor(DEFAULT_QUALITY, 1, "none", 10, "none"))
    /\ FnIdle

CallProcessSingleImage ==
    /\ fn = "none"
    /\ \E d \in FnImages, index \in 0..1, is_cover \in BOOLEAN, crop \in CropSettings :
          /\ fn_args' = <<index, d, is_cover, self.quality, crop[1], crop[2]>>
          /\ fn_ret' = process_single_image(<<index, d, is_cover, self.quality,
                                              crop[1], crop[2]>>)
    /\ fn' = "process_single_image"
    /\ UNCHANGED <<pipeVars, grayVars>>

CallCompressImage ==
    /\ fn = "none"
    /\ \E d \in FnImages, quality \in Qualities, crop \in CropSettings,
          force_grayscale \in BOOLEAN :
          /\ fn_args' = <<d, quality, crop[1], crop[2], force_grayscale>>
          /\ fn_ret' = compress_image(d, quality, crop[1], crop[2], force_grayscale)
    /\ fn' = "compress_image"
    /\ UNCHANGED <<pipeVars, grayVars>>

CallSplitAndCompress ==
    /\ fn = "none"
    /\ \E d \in FnImages, base_quality \in Qualities, crop \in CropSettings :
          /\ fn_args' = <<d, base_quality, crop[1], crop[2]>>
          /\ fn_ret' = split_and_compress(d, base_quality, crop[1], crop[2])
    /\ fn' = "split_and_compress"
    /\ UNCHANGED <<pipeVars, grayVars>>

CallCropMargins ==
    /\ fn = "none"
    /\ \E img \in FnRasters, power \in Powers :
          /\ fn_args' = <<img, power>>
          /\ fn_ret' = crop_margins(img, power)
    /\ fn' = "crop_margins"
    /\ UNCHANGED <<pipeVars, grayVars>>

CallCropPageNumber ==
    /\ fn = "none"
    /\ \E img \in FnRasters \cup NumberedPages, power \in Powers :
          /\ fn_args' = <<img, power>>
          /\ fn_ret' = crop_page_number(img, power)
    /\ fn' = "crop_page_number"
    /\ UNCHANGED <<pipeVars, grayVars>>

CallApplyCrop ==
    /\ fn = "none"
    /\ \E img \in FnRasters, mode \in CropModes, power \in Powers :
          /\ fn_args' = <<img, mode, power>>
          /\ fn_ret' = apply_crop(img, mode, power)
    /\ fn' = "apply_crop"
    /\ UNCHANGED <<pipeVars, grayVars>>

\* group_close_values on the columns of the content pixels of a row, as
\* np.where gives them (ascending), with a tolerance of one or two pixels.
CallGroupCloseValues ==
    /\ fn = "none"
    /\ \E cols \in SUBSET (0..(MaxWidth - 1)), max_dist_tolerated \in {1000, 2000} :
          /\ fn_args' = <<Ascending(cols), max_dist_tolerated>>
          /\ fn_ret' = group_close_values(Ascending(cols), max_dist_tolerated)
    /\ fn' = "group_close_values"
    /\ UNCHANGED <<pipeVars, grayVars>>

\* merge_boxes on a list of boxes, with no tolerance and with one pixel each way.
CallMergeBoxes ==
    /\ fn = "none"
    /\ \E boxes \in SeqsUpTo(BoxPool, MaxBoxes), max_dist \in {<<0, 0>>, <<1000, 1000>>} :
          /\ fn_args' = <<boxes, max_dist>>
          /\ fn_ret' = merge_boxes(boxes, max_dist)
    /\ fn' = "merge_boxes"
    /\ UNCHANGED <<pipeVars, grayVars>>

\* Lines 110-111 of crop_margins for one pixel of the preprocessed grayscale
\* image: the threshold of the power and the binarised pixel.
CallBinarize ==
    /\ fn = "none"
    /\ \E p \in GrayLevels, power \in SliderPowers :
          /\ fn_args' = <<p, power>>
          /\ fn_ret' = <<threshold_from_power(power),
                         Binarize(p, threshold_from_power(power))>>
    /\ fn' = "binarize"
    /\ UNCHANGED <<pipeVars, grayVars>>

\* The enumeration of the input of a batch, on its own.
CallTaskList ==
    /\ fn = "none"
    /\ \E src \in SeqsUpTo(PipelineImages, MaxTasks) :
          /\ fn_args' = <<src>>
          /\ fn_ret' = TaskList(src, self)
    /\ fn' = "task_list"
    /\ UNCHANGED <<pipeVars, grayVars>>

CallEstimateJpegQuality ==
    /\ fn = "none"
    /\ \E d \in EstimateSources :
          /\ fn_args' = <<d>>
          /\ fn_ret' = estimate_jpeg_quality(d)
    /\ fn' = "estimate_jpeg_quality"
    /\ UNCHANGED <<pipeVars, grayVars>>

CallOutputPath ==
    /\ fn = "none"
    /\ \E path \in InputNames :
          /\ fn_args' = <<path>>
          /\ fn_ret' = OutputPath(path)
    /\ fn' = "output_path"
    /\ UNCHANGED <<pipeVars, grayVars>>

\* The call returns to its caller.
FnReturn ==
    /\ fn # "none"
    /\ fn' = "none"
    /\ fn_args' = <<>>
    /\ fn_ret' = <<>>
    /\ UNCHANGED <<pipeVars, grayVars>>

FnNext ==
    \/ CallProcessSingleImage
    \/ CallCompressImage
    \/ CallSplitAndCompress
    \/ CallCropMargins
    \/ CallCropPageNumber
    \/ CallApplyCrop
    \/ CallBinarize
    \/ CallGroupCloseValues
    \/ CallMergeBoxes
    \/ CallTaskList
    \/ CallEstimateJpegQuality
    \/ CallOutputPath
    \/ FnReturn

FnSpec == FnInit /\ [][FnNext]_vars

\* ------------------------------------- is_grayscale_image, thread by thread
\* Arrays of pixels, row after row; "n" is a pixel whose red differs from its
\* green and from its blue by less than 15, "c" any other pixel.
Pixels(mode, w, h, arr) == [mode |-> mode, w |-> w, h |-> h, arr |-> arr]

GrayArrays ==
    {Pixels("RGB", 2, 2, <<"n", "n", "c", "n">>),
     Pixels("RGB", 2, 2, <<"n", "n", "n", "n">>),
     Pixels("RGB", 2, 3, <<"c", "n", "n", "n", "n", "c">>),
     Pixels("L", 2, 2, <<"n", "n", "n", "n">>),
     Pixels("CMYK", 2, 2, <<"c", "c", "c", "c">>)}

\* np.random.choice(n, sample_count, replace=False) with the generator in
\* state drawn: sample_count different positions that depend on the state.
Choice(drawn, n, sample_count) == {(5 * drawn + 3 + j) % n : j \in 0..(sample_count - 1)}

\* compressor.py line 43.
SampleCount(img) == Min(MaxSample, img.h * img.w)

\* compressor.py lines 50-58 for the sampled positions.
GrayscaleOfSample(img, indices) ==
    Cardinality({i \in indices : img.arr[i + 1] = "n"}) * 100 > 92 * Cardinality(indices)

\* A thread enters is_grayscale_image: lines 33-40.
IsGrayCall(t) ==
    /\ calls[t].pc = "idle"
    /\ \E img \in GrayArrays :
          calls' = [calls EXCEPT ![t] =
                       IF img.mode = "L"
                       THEN [pc |-> "done", img |-> img, indices |-> {}, ret |-> TRUE]
                       ELSE IF img.mode # "RGB"
                       THEN [pc |-> "done", img |-> img, indices |-> {}, ret |-> FALSE]
                       ELSE [pc |-> "seed", img |-> img, indices |-> {}, ret |-> FALSE]]
    /\ UNCHANGED <<pipeVars, fnVars, np_random>>

\* np.random.seed(42), line 42.
IsGraySeed(t) ==
    /\ calls[t].pc = "seed"
    /\ np_random' = 0
    /\ calls' = [calls EXCEPT ![t].pc = "choice"]
    /\ UNCHANGED <<pipeVars, fnVars>>

\* Lines 43-58: the sample is drawn from the global generator, which moves
\* on, and classified.
IsGrayChoice(t) ==
    /\ calls[t].pc = "choice"
    /\ np_random' = np_random + SampleCount(calls[t].img)
    /\ calls' = [calls EXCEPT ![t] =
                     [pc |-> "done", img |-> @.img,
                      indices |-> Choice(np_random, @.img.h * @.img.w, SampleCount(@.img)),
                      ret |-> GrayscaleOfSample(@.img,
                                  Choice(np_random, @.img.h * @.img.w, SampleCount(@.img)))]]
    /\ UNCHANGED <<pipeVars, fnVars>>

\* The call returns.
IsGrayReturn(t) ==
    /\ calls[t].pc = "done"
    /\ calls' = [calls EXCEPT ![t] = NoCall]
    /\ UNCHANGED <<pipeVars, fnVars, np_random>>

GrayInit ==
    /\ PipeInit(<<>>, "dir", TRUE, NewProcessor(DEFAULT_QUALITY, MaxThreads, "none", 10, "none"))
    /\ FnIdle

GrayNext ==
    \/ \E t \in GrayThreads : IsGrayCall(t)
    \/ \E t \in GrayThreads : IsGraySeed(t)
    \/ \E t \in GrayThreads : IsGrayChoice(t)
    \/ \E t \in GrayThreads : IsGrayReturn(t)

GraySpec == GrayInit /\ [][GrayNext]_vars

\* ------------------------------------------------ the assembly of the archive
\* What the futures hold, in the order the loop was given them.
Outcomes(order, tasks) == [k \in 1..Len(order) |-> process_single_image(tasks[order[k] + 1])]

\* The dict results after the loop of lines 322-337 has been given every
\* future, in this order, with no cancellation.
Collected(order, tasks) ==
    LET Returned(out) == out.ok
        kept == SelectSeq(Outcomes(order, tasks), Returned)
    IN [k \in 1..Len(kept) |-> kept[k].value]

\* stats.errors after the same loop.
Failures(order, tasks, names) ==
    LET Failed(index) == ~process_single_image(tasks[index + 1]).ok
        lost == SelectSeq(order, Failed)
    IN [k \in 1..Len(lost) |-> ErrorEntry(names, lost[k], "image")]

\* The futures in the order of submission, or in the opposite order.
CompletionOrder(n, descending) == [k \in 1..n |-> IF descending THEN n - k ELSE k - 1]

\* The state in which _process_images_parallel has returned (line 339) and
\* _write_results_to_cbz is entered (line 341).
AfterCollection(src, processor, order) ==
    /\ source = src
    /\ input_path = "dir"
    /\ SEVENZIP_PATH = TRUE
    /\ self = processor
    /\ cancelled = FALSE
    /\ pc = "write_open"
    /\ image_data_list = TaskList(src, processor)
    /\ file_names = [k \in 1..Len(src) |-> FileNames[k]]
    /\ fstate = [i \in 0..(Len(src) - 1) |-> "finished"]
    /\ ready = <<>>
    /\ yielded = 0
    /\ cur = -1
    /\ results = Collected(order, TaskList(src, processor))
    /\ completed = 0
    /\ stats = [NewStats EXCEPT !.total_files = Len(src),
                                !.errors = Failures(order, TaskList(src, processor),
                                                    [k \in 1..Len(src) |-> FileNames[k]])]
    /\ progress = <<>>
    /\ archive = <<>>
    /\ wkeys = <<>>
    /\ wpos = <<1, 1>>
    /\ num_digits = 0
    /\ page = 0
    /\ at_cancel = NoCancel

WriterInit ==
    /\ \E src \in SeqsUpTo(PipelineImages, MaxResults), descending \in BOOLEAN :
          AfterCollection(src, NewProcessor(DEFAULT_QUALITY, MaxThreads, "none", 10, "none"),
                          CompletionOrder(Len(src), descending))
    /\ FnIdle

WriterNext ==
    \/ WriteOpen
    \/ WriteStr
    \/ WriteClose

WriterSpec == WriterInit /\ [][WriterNext]_vars

\* ------------------------------------------------------------ properties
\* Reading an entry name back: the digits before the extension, their value,
\* and the number of digits a number is written with.
NameStem(name) == SubSeq(name, 1, Len(name) - 4)

NameSuffix(name) == SubSeq(name, Len(name) - 3, Len(name))

IsDigits(s) == \A k \in 1..Len(s) : s[k] \in Range(DigitChars)

DigitValue(c) == CHOOSE d \in 0..9 : DigitChars[d + 1] = c

RECURSIVE DecimalValue(_)
DecimalValue(s) ==
    IF s = <<>> THEN 0
    ELSE DecimalValue(SubSeq(s, 1, Len(s) - 1)) * 10 + DigitValue(s[Len(s)])

RECURSIVE DecimalDigits(_)
DecimalDigits(n) == IF n < 10 THEN 1 ELSE 1 + DecimalDigits(n \div 10)

\* The page number an entry of the archive carries in its name.
PageOf(k) == DecimalValue(NameStem(archive[k].name))

\* The tasks whose file holds no image, and those that are spreads.
Unreadable == {i \in Tasks : ~source[i + 1].readable}

Wide(image_data) == image_data.readable /\ image_data.w > image_data.h

\* C1: whatever the number of tasks, the number of threads and the order in
\* which the tasks complete, the entries of the archive are in ascending order
\* of task index: every page of task i has a smaller page number than every
\* page of task j when i < j.
C1_ArchiveInTaskOrder ==
    \A a, b \in 1..Len(archive) :
        archive[a].index < archive[b].index => PageOf(a) < PageOf(b)

\* Fewer threads than tasks, results collected out of order, all written.
C1_Witness ==
    /\ pc = "done"
    /\ self.num_threads < N
    /\ Len(results) = 3
    /\ \E a, b \in 1..Len(results) : a < b /\ results[a][1] > results[b][1]
    /\ Len(archive) >= 3

\* C2: in a run that is not cancelled and in which exactly one task raises,
\* the batch goes on: stats.errors holds one entry under the file name of that
\* task, and every page of the other tasks is written to the archive.
C2_OneFailureKeepsBatch ==
    (pc = "done" /\ ~cancelled /\ Cardinality(Unreadable) = 1) =>
        LET f == CHOOSE i \in Unreadable : TRUE
        IN /\ Cardinality({k \in 1..Len(stats.errors) :
                              stats.errors[k][1] = FileNames[f + 1]}) = 1
           /\ {archive[k].index : k \in 1..Len(archive)} = Tasks \ {f}
           /\ \A i \in Tasks \ {f} :
                 Cardinality({k \in 1..Len(archive) : archive[k].index = i})
                     = IF i # 0 /\ Wide(source[i + 1]) THEN 2 ELSE 1

C2_Witness ==
    /\ pc = "done"
    /\ ~cancelled
    /\ N = 3
    /\ Unreadable = {1}
    /\ Len(stats.errors) = 1
    /\ Len(archive) = 3

\* C3: when cancel() is called while _process_images_parallel runs, every
\* entry of the archive belongs to a task that had finished when the flag was
\* set; a task that finishes later contributes no entry.
C3_EntriesOfTasksFinishedAtCancel ==
    (at_cancel.set /\ at_cancel.phase = "parallel") =>
        \A k \in 1..Len(archive) : archive[k].index \in at_cancel.finished

\* The flag set while the pool runs, a task finished after it, and entries
\* written.
C3_Witness ==
    /\ pc = "done"
    /\ at_cancel.set
    /\ at_cancel.phase = "parallel"
    /\ archive # <<>>
    /\ \E i \in Tasks : fstate[i] = "finished" /\ i \notin at_cancel.finished

\* C4: once the cancellation flag is set during a run, here while
\* _process_images_parallel runs, no zf.writestr step occurs: the archive
\* gets no entry after the flag became true.
C4_NoWriteAfterCancel ==
    [][(cancelled /\ at_cancel.set /\ at_cancel.phase = "parallel")
           => Len(archive') <= Len(archive)]_vars

\* The values estimate_jpeg_quality returns for an image it can open.
EstimateRange == {60, 70, 80, 85, 90, 95}

\* C5: for a target quality from 60 to 95 and a source estimated at 60, 70,
\* 80, 85, 90 or 95, the quality a page is encoded with is at least 60 and at
\* most the target, in compress_image and in split_and_compress.
C5_QualityBetweenFloorAndTarget ==
    /\ (/\ fn = "compress_image"
        /\ fn_ret.ok
        /\ fn_args[2] \in 60..95
        /\ estimate_jpeg_quality(fn_args[1]) \in EstimateRange)
           => /\ fn_ret.data.quality \in 60..fn_args[2]
              /\ fn_ret.stats.quality_used = fn_ret.data.quality
    /\ (/\ fn = "split_and_compress"
        /\ fn_ret.ok
        /\ fn_args[2] \in 60..95
        /\ estimate_jpeg_quality(fn_args[1]) \in EstimateRange)
           => /\ fn_ret.first.quality \in 60..fn_args[2]
              /\ fn_ret.second.quality \in 60..fn_args[2]

\* A source estimated at 60 with the target 70: the floor decides.
C5_Witness ==
    /\ fn = "compress_image"
    /\ fn_ret.ok
    /\ fn_args[2] = 70
    /\ estimate_jpeg_quality(fn_args[1]) = 60
    /\ fn_ret.data.quality = 60

\* C6 as stated: the width the page numbers are padded to is the number of
\* digits of the number of buffers written.
C6_WidthOfPageCount ==
    pc = "done" =>
        \A k \in 1..Len(archive) :
            Len(NameStem(archive[k].name)) = DecimalDigits(Len(archive))

\* C6, amended: the width the page numbers are padded to is the number of
\* digits of twice the number of collected results, which is never less than
\* the number of digits of the number of buffers written.
C6_WidthOfTwiceResults ==
    pc = "done" =>
        /\ \A k \in 1..Len(archive) :
              Len(NameStem(archive[k].name)) = DecimalDigits(2 * Len(results))
        /\ DecimalDigits(2 * Len(results)) >= DecimalDigits(Len(archive))

\* Five pages, none split: two digits for page numbers of one.
C6_Witness ==
    /\ pc = "done"
    /\ Len(results) = 5
    /\ Len(archive) = 5
    /\ archive[1].name = <<"0", "1", ".", "j", "p", "g">>

\* C7: the page numbers of the entries of an archive are 1, 2, ..., K, K the
\* number of buffers of the collected results (two for a split result, one
\* otherwise), also when tasks failed or were not collected; every name is
\* the zero-padded page number followed by ".jpg".
C7_PagesNumberedFromOne ==
    /\ \A k \in 1..Len(archive) :
          /\ NameSuffix(archive[k].name) = <<".", "j", "p", "g">>
          /\ IsDigits(NameStem(archive[k].name))
          /\ Len(NameStem(archive[k].name)) >= DecimalDigits(k)
          /\ PageOf(k) = k
    /\ pc = "done" =>
          /\ Len(archive) = SumSeq([k \in 1..Len(results) |->
                                       IF results[k][2] THEN 2 ELSE 1])
          /\ \A k \in 1..Len(results) :
                Len(results[k][3]) = IF results[k][2] THEN 2 ELSE 1

\* A cancelled run with a failed task, a task not collected and pages written.
C7_Witness ==
    /\ pc = "done"
    /\ stats.errors # <<>>
    /\ at_cancel.set
    /\ Len(results) + Len(stats.errors) < N
    /\ Len(archive) >= 2

\* C8 as stated: two buffers, marked expanded, exactly for a wide image that
\* is not the cover; in every other case, also for a file that holds no
\* image, one buffer, not marked expanded.
C8_AlwaysReturnsBuffers ==
    (fn = "process_single_image" /\ fn_args[5] = "none") =>
        /\ fn_ret.ok
        /\ IF ~fn_args[3] /\ Wide(fn_args[2])
           THEN fn_ret.value[2] /\ Len(fn_ret.value[3]) = 2
           ELSE ~fn_ret.value[2] /\ Len(fn_ret.value[3]) = 1

\* C8, amended: when process_single_image returns, it returns two buffers,
\* marked expanded, exactly for a wide image that is not the cover, and one
\* buffer, not marked expanded, otherwise; for a file that holds no image it
\* takes the single-page path and raises; for an image that decodes, with
\* cropping off, it always returns.  Only the task of index 0 of a batch is
\* marked as cover.
C8_BuffersWhenReturning ==
    /\ (fn = "process_single_image" /\ fn_ret.ok) =>
          /\ fn_ret.value[2] <=> (~fn_args[3] /\ Wide(fn_args[2]))
          /\ Len(fn_ret.value[3]) = IF fn_ret.value[2] THEN 2 ELSE 1
          /\ fn_ret.value[1] = fn_args[1]
    /\ (fn = "process_single_image" /\ ~fn_args[2].readable) => ~fn_ret.ok
    /\ (fn = "process_single_image" /\ fn_args[2].readable /\ fn_args[5] = "none")
          => fn_ret.ok
    /\ fn = "task_list" =>
          \A k \in 1..Len(fn_ret) : fn_ret[k][1] = k - 1 /\ (fn_ret[k][3] <=> k = 1)

\* A file that holds no image, not the cover: no buffer is returned.
C8_Witness ==
    /\ fn = "process_single_image"
    /\ ~fn_args[2].readable
    /\ ~fn_args[3]
    /\ ~fn_ret.ok

\* Cropping is off for a call of split_and_compress.
CropOff(mode, power) == mode = "none" \/ power <= 0

\* C9 as stated: with cropping off, the first page returned is the right
\* half and the second the left half, of widths floor(W/2) and W - floor(W/2)
\* in this order.
C9_FirstIsFloorHalf ==
    (/\ fn = "split_and_compress"
     /\ Wide(fn_args[1])
     /\ fn_args[1].w >= 2
     /\ CropOff(fn_args[3], fn_args[4])) =>
        /\ fn_ret.ok
        /\ fn_ret.first.w = fn_args[1].w \div 2
        /\ fn_ret.second.w = fn_args[1].w - fn_args[1].w \div 2

\* C9, amended: with cropping off, the first page returned is the right half
\* and the second the left half; the second (left) is floor(W/2) wide and the
\* first (right) W - floor(W/2), and the widths sum to W, for every W >= 2.
C9_RightHalfFirst ==
    (/\ fn = "split_and_compress"
     /\ Wide(fn_args[1])
     /\ fn_args[1].w >= 2
     /\ CropOff(fn_args[3], fn_args[4])) =>
        /\ fn_ret.ok
        /\ fn_ret.second.ox = 0
        /\ fn_ret.second.w = fn_args[1].w \div 2
        /\ fn_ret.first.ox = fn_ret.second.w
        /\ fn_ret.first.w = fn_args[1].w - fn_args[1].w \div 2
        /\ fn_ret.first.w + fn_ret.second.w = fn_args[1].w
        /\ fn_ret.first.h = fn_args[1].h /\ fn_ret.second.h = fn_args[1].h

\* A spread of odd width: the right half, returned first, is the wider.
C9_Witness ==
    /\ fn = "split_and_compress"
    /\ fn_args[1].w = 7
    /\ fn_args[3] = "none"
    /\ fn_ret.ok
    /\ fn_ret.first.w = 4
    /\ fn_ret.second.w = 3

\* C10: for a crop power of 0 or less, crop_margins, crop_page_number and
\* apply_crop (in every mode) return the image they were given; so does
\* apply_crop in mode 'none' for every power.
C10_NoCropIsIdentity ==
    /\ (fn \in {"crop_margins", "crop_page_number"} /\ fn_args[2] <= 0)
          => fn_ret = Ok(fn_args[1])
    /\ (fn = "apply_crop" /\ (fn_args[3] <= 0 \/ fn_args[2] = "none"))
          => fn_ret = Ok(fn_args[1])

\* A drawn page, which a positive power crops, given with the power 0.
C10_Witness ==
    /\ fn = "crop_margins"
    /\ fn_args[2] = 0
    /\ fn_args[1].rects # <<>>
    /\ crop_margins(fn_args[1], 10) # Ok(fn_args[1])
    /\ fn_ret = Ok(fn_args[1])

\* The boxes crop_page_number decides on: the segments of the window, merged,
\* the small ones dropped (lines 179-196).
ScanBoxes(img, gray, window_h, bbox) ==
    BigEnough(merge_boxes(WindowGroups(gray, img.w, img.h, bbox[1], bbox[3],
                                       bbox[4] - window_h, window_h, 0),
                          <<img.w * 10, img.h * 2>>),
              img.w, img.h)

\* What C11 says of the value ret returned for img, given the boxes of the
\* window of window_h rows that ends above row bot_y_pos of img.
ScanOutcome(img, ret, boxes, window_h, bot_y_pos) ==
    LET bottom == {k \in 1..Len(boxes) : boxes[k][4] = window_h - 1}
        TopRow(k) == bot_y_pos - window_h + boxes[k][3]
        Near(k) == {j \in 1..Len(boxes) : boxes[j][4] >= boxes[k][3]}
        Fits(k) == /\ (boxes[k][2] - boxes[k][1]) * 1000 <= img.w * 45
                   /\ (boxes[k][4] - boxes[k][3]) * 100 <= Max(img.h * 2, 300)
    IN /\ bottom = {} => ret = Ok(img)
       /\ Cardinality(bottom) >= 2 => ret = Ok(img)
       /\ \A k \in bottom :
             (bottom = {k} /\ Near(k) = {k} /\ Fits(k)) =>
                 /\ ret.ok
                 /\ ret.img.w = img.w /\ ret.img.ox = img.ox /\ ret.img.oy = img.oy
                 /\ ret.img.h >= 0
                 /\ ret.img.h - 1 < TopRow(k)
                 /\ \A r \in Range(ret.img.rects) : r[4] <= TopRow(k)

ScanOutcomeAt(img, ret, gray, window_h, bbox) ==
    IF bbox = <<>> \/ window_h <= 0 THEN ret = Ok(img)
    ELSE ScanOutcome(img, ret, ScanBoxes(img, gray, window_h, bbox), window_h, bbox[4])

ScanOutcomeOf(img, ret, gray) ==
    ScanOutcomeAt(img, ret, gray, (img.h * 25) \div 1000,
                  GetBBox(ignore_pixels_near_edge(gray, img.w, img.h)))

\* C11: for a power above 0, crop_page_number returns the image unchanged
\* when no box touches the bottom row of the scan window and when two or more
\* boxes touch it; when exactly one box touches it, no other box reaches down
\* to its rows and it is within the largest footprint, the image returned has
\* the full width and ends strictly above the top row of that box, so that no
\* row of the mark is left.
C11_CropsAboveTheOneBottomBox ==
    (/\ fn = "crop_page_number"
     /\ fn_args[2] > 0
     /\ detect_background_color(fn_args[1]).ok) =>
        ScanOutcomeOf(fn_args[1], fn_ret,
                      ContentRects(fn_args[1], detect_background_color(fn_args[1]).color))

\* A page with one page number under its drawings: the number is cut off,
\* the drawings stay.
C11_Witness ==
    /\ fn = "crop_page_number"
    /\ fn_args[2] > 0
    /\ Len(fn_args[1].rects) = 2
    /\ fn_ret.ok
    /\ fn_ret.img.h = 469
    /\ fn_ret.img.w = fn_args[1].w
    /\ fn_ret.img.rects = <<Body>>

\* C12: the progress callback is invoked once after each task completes, with
\* total_count the number of submitted tasks and completed_count 1, 2, ... up
\* to at most total_count: a run that was not cancelled has made one call for
\* every task when process() returns.
C12_CallbackAfterEachTask ==
    (pc = "done" /\ ~cancelled /\ self.progress_callback = "reliable") =>
        /\ Len(progress) = N
        /\ \A k \in 1..Len(progress) :
              /\ progress[k][1] = k
              /\ progress[k][2] = N
              /\ progress[k][1] <= progress[k][2]

\* C13: for an input that is neither a folder nor a .zip, .cbz, .rar, .cbr or
\* .epub file, for a RAR source when no 7-Zip executable was found, and for a
\* RAR or EPUB source without images, process() raises before any task is
\* submitted to the pool and before the output archive is created or written.
C13_FatalInputStartsNothing ==
    (\/ input_path \notin {"dir", ".zip", ".cbz", ".rar", ".cbr", ".epub"}
     \/ input_path \in {".rar", ".cbr"} /\ ~SEVENZIP_PATH
     \/ input_path \in {".rar", ".cbr", ".epub"} /\ source = <<>>) =>
        /\ pc \in {"start", "raised"}
        /\ \A i \in Tasks : fstate[i] = "new"
        /\ image_data_list = <<>>
        /\ archive = <<>>
        /\ stats = NewStats

\* An EPUB without images: process() has raised.
C13_Witness ==
    /\ pc = "raised"
    /\ input_path = ".epub"
    /\ source = <<>>
    /\ archive = <<>>

\* The tasks with an entry in the archive, and the entries of stats.errors
\* under the file name of task i.
Written == {archive[k].index : k \in 1..Len(archive)}

ErrorsOf(i) == {k \in 1..Len(stats.errors) : stats.errors[k][1] = FileNames[i + 1]}

\* The totals of stats against the archive, when process() has returned.
TotalsMatchArchive ==
    /\ stats.processed_files = Cardinality(Written)
    /\ stats.original_size =
           SumSeq([k \in 1..N |-> IF k - 1 \in Written THEN source[k].nbytes ELSE 0])
    /\ stats.compressed_size = SumSeq([k \in 1..Len(archive) |-> archive[k].data.len])
    /\ \A k \in 1..Len(archive) : archive[k].data.len > 0

\* A step of a worker thread: a future starts to run or finishes.
WorkerStep ==
    \E i \in Tasks : fstate'[i] # fstate[i] /\ fstate'[i] \in {"running", "finished"}

\* C14 as stated: when process() returns, processed_files, original_size and
\* compressed_size are those of the results written, and every task that
\* failed is in none of them and has exactly one entry in errors.
C14_FailedTaskHasOneError ==
    pc = "done" =>
        /\ TotalsMatchArchive
        /\ \A i \in Unreadable : i \notin Written /\ Cardinality(ErrorsOf(i)) = 1

\* C14, amended: when process() returns, processed_files is the number of
\* tasks whose results were written, original_size the sum of the raw sizes
\* of those tasks, compressed_size the sum of the lengths of the buffers
\* written; a task that failed is in none of the three and has at most one
\* entry in errors, exactly one unless the run was cancelled while the pool
\* ran.  No step of a worker thread changes the statistics.
C14_StatsMatchArchive ==
    /\ [](pc = "done" =>
             /\ TotalsMatchArchive
             /\ \A i \in Unreadable :
                   /\ i \notin Written
                   /\ Cardinality(ErrorsOf(i)) <= 1
                   /\ ~(at_cancel.set /\ at_cancel.phase = "parallel")
                          => Cardinality(ErrorsOf(i)) = 1)
    /\ [][WorkerStep => stats' = stats]_vars

\* A cancelled run that wrote a page and left a failed task uncollected: the
\* failed task has no entry in errors.
C14_Witness ==
    /\ pc = "done"
    /\ archive # <<>>
    /\ stats.processed_files = Len(results)
    /\ stats.compressed_size > 0
    /\ \E i \in Unreadable : fstate[i] = "finished" /\ ErrorsOf(i) = {}

\* C15: is_grayscale_image is reproducible: for the same RGB image every call
\* samples the same pixel positions and returns the same result, those of a
\* call made alone, also while other threads call it on other images.
C15_SameSampleEveryCall ==
    \A t \in GrayThreads :
        (calls[t].pc = "done" /\ calls[t].img.mode = "RGB") =>
            /\ calls[t].indices =
                   Choice(0, calls[t].img.h * calls[t].img.w, SampleCount(calls[t].img))
            /\ calls[t].ret =
                   GrayscaleOfSample(calls[t].img,
                       Choice(0, calls[t].img.h * calls[t].img.w, SampleCount(calls[t].img)))

\* C16: an unsplit page is encoded at max(60, min(target, estimate - 5)), the
\* two halves of a split page both at max(60, min(target, estimate - 8)); for
\* the same source and target the quality of the halves is never above the
\* quality the unsplit page would get.
C16_SplitQualityNotAboveSingle ==
    /\ (fn = "compress_image" /\ fn_ret.ok) =>
          LET e == estimate_jpeg_quality(fn_args[1]) - 5
              m == IF fn_args[2] < e THEN fn_args[2] ELSE e
          IN fn_ret.data.quality = IF m > 60 THEN m ELSE 60
    /\ (fn = "split_and_compress" /\ fn_ret.ok) =>
          LET e == estimate_jpeg_quality(fn_args[1]) - 8
              m == IF fn_args[2] < e THEN fn_args[2] ELSE e
          IN /\ fn_ret.first.quality = IF m > 60 THEN m ELSE 60
             /\ fn_ret.second.quality = fn_ret.first.quality
             /\ fn_ret.first.quality
                    <= compress_image(fn_args[1], fn_args[2], fn_args[3], fn_args[4],
                                      FALSE).data.quality

\* A source estimated at 80 with the target 75: the halves get 72, the
\* unsplit page would get 75.
C16_Witness ==
    /\ fn = "split_and_compress"
    /\ fn_ret.ok
    /\ fn_args[2] = 75
    /\ estimate_jpeg_quality(fn_args[1]) = 80
    /\ fn_ret.first.quality = 72
    /\ fn_ret.second.quality = 72
    /\ compress_image(fn_args[1], 75, fn_args[3], fn_args[4], FALSE).data.quality = 75

\* The threshold is 240 - 64 * power truncated, and strictly smaller than the
\* threshold of every lower power of the slider.
ThresholdFalls ==
    fn = "binarize" =>
        /\ fn_ret[1] * 10 <= 2400 - 64 * fn_args[2]
        /\ 2400 - 64 * fn_args[2] < (fn_ret[1] + 1) * 10
        /\ \A q \in SliderPowers : q < fn_args[2] => threshold_from_power(q) > fn_ret[1]

\* C17 as stated: the threshold is 240 - 64 * power truncated, strictly
\* decreasing in the power, and a pixel that is content at a power is content
\* at every higher power.
C17_HigherPowerMoreContent ==
    /\ ThresholdFalls
    /\ (fn = "binarize" /\ fn_ret[2] = 255) =>
          \A q \in SliderPowers :
              q > fn_args[2] => Binarize(fn_args[1], threshold_from_power(q)) = 255

\* C17, amended: the threshold is 240 - 64 * power truncated, strictly
\* decreasing in the power, and a higher power classifies fewer pixels as
\* content: a pixel that is content at a power is content at every lower power.
C17_HigherPowerLessContent ==
    /\ ThresholdFalls
    /\ (fn = "binarize" /\ fn_ret[2] = 255) =>
          \A q \in SliderPowers :
              q < fn_args[2] => Binarize(fn_args[1], threshold_from_power(q)) = 255

\* A pixel of level 200 at the power 1.0: the threshold is 176 and the pixel
\* is not content, although it is at the power 0.
C17_Witness ==
    /\ fn = "binarize"
    /\ fn_args = <<200, 10>>
    /\ fn_ret = <<176, 0>>
    /\ Binarize(200, threshold_from_power(0)) = 255

\* Box big holds every point of box small.
Contains(big, small) ==
    big[1] <= small[1] /\ small[2] <= big[2] /\ big[3] <= small[3] /\ small[4] <= big[4]

\* C18: merge_boxes returns, for every list of boxes, a list that is a fixed
\* point: no two boxes at different places of the result intersect under
\* box_intersect with the given tolerances, in either order of the arguments,
\* and every box of the input is contained in a box of the result.
C18_MergedBoxesAreApart ==
    fn = "merge_boxes" =>
        /\ Len(fn_ret) <= Len(fn_args[1])
        /\ \A a, b \in 1..Len(fn_ret) :
              a # b => ~box_intersect(fn_ret[a], fn_ret[b], fn_args[2])
        /\ \A k \in 1..Len(fn_args[1]) :
              \E a \in 1..Len(fn_ret) : Contains(fn_ret[a], fn_args[1][k])

\* Two segments that are apart and a pixel that touches both: the first merge
\* makes a box that intersects the segment left over, and one box remains.
C18_Witness ==
    /\ fn = "merge_boxes"
    /\ fn_args = <<<<<<0, 1, 0, 0>>, <<3, 4, 0, 0>>, <<2, 2, 1, 1>>>>, <<1000, 1000>>>>
    /\ ~box_intersect(fn_args[1][1], fn_args[1][2], fn_args[2])
    /\ fn_ret = <<<<0, 4, 0, 1>>>>

\* The list boxes in the order q of its places.
Permuted(boxes, q) == [k \in 1..Len(boxes) |-> boxes[q[k]]]

\* C19: the set of boxes merge_boxes returns depends on the set of boxes it
\* is given and on the tolerances only: every permutation of the input list
\* gives the same set of boxes.
C19_MergeIgnoresOrder ==
    fn = "merge_boxes" =>
        \A q \in Orderings(1..Len(fn_args[1])) :
            Range(merge_boxes(Permuted(fn_args[1], q), fn_args[2])) = Range(fn_ret)

\* Three boxes that end as one, given in an order in which the first does not
\* intersect the second, while in another order it does: the merges are made
\* in another sequence and the box returned is the same.
C19_Witness ==
    /\ fn = "merge_boxes"
    /\ Len(fn_args[1]) = 3
    /\ Len(fn_ret) = 1
    /\ ~box_intersect(fn_args[1][1], fn_args[1][2], fn_args[2])
    /\ \E q \in Orderings(1..3) :
          /\ box_intersect(fn_args[1][q[1]], fn_args[1][q[2]], fn_args[2])
          /\ merge_boxes(Permuted(fn_args[1], q), fn_args[2]) = fn_ret

\* The segments of the result that hold the column v.
SegmentsOf(v) == {g \in 1..Len(fn_ret) : fn_ret[g][1] <= v /\ v <= fn_ret[g][2]}

\* C20: for the ascending columns of the content pixels of a row and a
\* tolerance d, group_close_values returns segments that group all of them:
\* every column lies in exactly one segment, two consecutive columns at a
\* distance of at most d lie in the same segment, and two at a greater
\* distance in different segments.
C20_SegmentsGroupEveryColumn ==
    fn = "group_close_values" =>
        /\ \A k \in 1..Len(fn_args[1]) : Cardinality(SegmentsOf(fn_args[1][k])) = 1
        /\ \A k \in 1..(Len(fn_args[1]) - 1) :
              IF (fn_args[1][k + 1] - fn_args[1][k]) * 1000 <= fn_args[2]
              THEN SegmentsOf(fn_args[1][k]) = SegmentsOf(fn_args[1][k + 1])
              ELSE SegmentsOf(fn_args[1][k]) \cap SegmentsOf(fn_args[1][k + 1]) = {}

\* The boxes of the window as merge_boxes returns them, before any is dropped
\* (lines 179-191).
MergedBoxes(img, gray, window_h, bbox) ==
    merge_boxes(WindowGroups(gray, img.w, img.h, bbox[1], bbox[3],
                             bbox[4] - window_h, window_h, 0),
                <<img.w * 10, img.h * 2>>)

\* What the code does with the merged boxes: a box below the smallest
\* footprint is neither candidate nor competitor; a box above the largest one
\* is never cropped above but stays a competitor.
FootprintOutcome(img, ret, merged, window_h, bot_y_pos) ==
    LET Across(k) == merged[k][2] - merged[k][1]
        Down(k) == merged[k][4] - merged[k][3]
        TooSmall(k) == Across(k) * 1000 < img.w * 3 \/ Down(k) * 1000 < img.h * 6
        TooLarge(k) == Across(k) * 1000 > img.w * 45 \/ Down(k) * 100 > Max(img.h * 2, 300)
        kept == {k \in 1..Len(merged) : ~TooSmall(k)}
        bottom == {k \in kept : merged[k][4] = window_h - 1}
        Near(k) == {j \in kept : merged[j][4] >= merged[k][3]}
    IN /\ bottom = {} => ret = Ok(img)
       /\ \A k \in bottom :
             /\ (TooLarge(k) \/ Near(k) # {k}) => ret = Ok(img)
             /\ (~TooLarge(k) /\ Near(k) = {k}) =>
                    ret = CropAbove(img, bot_y_pos - (window_h - merged[k][3] + 1))

FootprintOutcomeAt(img, ret, gray, window_h, bbox) ==
    IF bbox = <<>> \/ window_h <= 0 THEN ret = Ok(img)
    ELSE FootprintOutcome(img, ret, MergedBoxes(img, gray, window_h, bbox),
                          window_h, bbox[4])

FootprintOutcomeOf(img, ret, gray) ==
    FootprintOutcomeAt(img, ret, gray, (img.h * 25) \div 1000,
                       GetBBox(ignore_pixels_near_edge(gray, img.w, img.h)))

\* The value returned when every box outside the footprint, too small or too
\* large, is dropped before the bottom row is looked at.
FootprintOnlyAt(img, gray, window_h, bbox) ==
    IF bbox = <<>> \/ window_h <= 0 THEN Ok(img)
    ELSE PageNumberCrop(img, window_h, bbox[4],
             PageNumberBox(WithinFootprint(MergedBoxes(img, gray, window_h, bbox),
                                           img.w, img.h),
                           img.w, img.h, window_h))

FootprintOnlyOf(img, gray) ==
    FootprintOnlyAt(img, gray, (img.h * 25) \div 1000,
                    GetBBox(ignore_pixels_near_edge(gray, img.w, img.h)))

\* C21 as stated: crop_page_number returns what it would return if every
\* merged box narrower than 0.3% or wider than 4.5% of the width, or lower than
\* 0.6% or higher than 2% of the height, were removed before the bottom-row
\* selection, so that such a box is neither cropped above nor a competitor.
C21_OutsideFootprintRemoved ==
    (/\ fn = "crop_page_number"
     /\ fn_args[2] > 0
     /\ detect_background_color(fn_args[1]).ok) =>
        fn_ret = FootprintOnlyOf(fn_args[1],
                     ContentRects(fn_args[1], detect_background_color(fn_args[1]).color))

\* C21, amended: only the boxes below the smallest footprint are removed
\* before the bottom-row selection; a box above the largest footprint stays
\* among the candidates, is never cropped above, and as a competitor, or as
\* the one box at the bottom, makes crop_page_number return the image
\* unchanged.
C21_SmallRemovedLargeCompetes ==
    (/\ fn = "crop_page_number"
     /\ fn_args[2] > 0
     /\ detect_background_color(fn_args[1]).ok) =>
        FootprintOutcomeOf(fn_args[1], fn_ret,
            ContentRects(fn_args[1], detect_background_color(fn_args[1]).color))

\* A page number with a rule beside it that is wider than 4.5% of the page:
\* the rule competes and the page is returned unchanged.
C21_Witness ==
    /\ fn = "crop_page_number"
    /\ fn_args[2] > 0
    /\ Len(fn_args[1].rects) = 3
    /\ fn_args[1].rects[3] = <<60, 470, 80, 476>>
    /\ fn_ret = Ok(fn_args[1])

\* An encoded buffer is single-channel or true-colour, and carries 4:2:0
\* subsampling and the progressive layout exactly when it is true-colour.
ColourOptionsMatch(buf) ==
    /\ buf.mode \in {"L", "RGB"}
    /\ (buf.subsampling = "4:2:0") <=> (buf.mode = "RGB")
    /\ buf.progressive <=> (buf.mode = "RGB")

\* Both halves of the spread img are encoded in one mode: single-channel when
\* the whole spread is single-channel or classified grayscale, true-colour
\* otherwise.
HalvesFollowSpread(img, ret) ==
    /\ ret.first.mode = ret.second.mode
    /\ (ret.first.mode = "L") <=> (img.mode = "L" \/ is_grayscale_image(img))
    /\ ColourOptionsMatch(ret.first)
    /\ ColourOptionsMatch(ret.second)

\* The page encoded from the cropped raster is single-channel when that
\* raster is single-channel or classified grayscale, or grayscale is forced.
PageFollowsRaster(cropped, force_grayscale, ret) ==
    /\ (cropped.img.mode = "L" \/ is_grayscale_image(cropped.img) \/ force_grayscale)
           => ret.data.mode = "L"
    /\ ret.stats.is_grayscale <=> (ret.data.mode = "L")
    /\ ColourOptionsMatch(ret.data)

\* C22: split_and_compress decides grayscale once, on the whole image, and
\* both halves come out in the same colour mode; on either path a raster that
\* is single-channel or classified grayscale is never encoded in three
\* channels; 4:2:0 subsampling and the progressive layout are set exactly for
\* a true-colour buffer.
C22_GrayscaleDecidedOnce ==
    /\ (fn = "split_and_compress" /\ fn_ret.ok) =>
           HalvesFollowSpread(NormalizeMode(ImageOpen(fn_args[1]).img), fn_ret)
    /\ (fn = "compress_image" /\ fn_ret.ok) =>
           PageFollowsRaster(apply_crop(NormalizeMode(ImageOpen(fn_args[1]).img),
                                        fn_args[3], fn_args[4]),
                             fn_args[5], fn_ret)

\* A true-colour spread of neutral colours, cropped and cut: both halves are
\* encoded single-channel, without subsampling.
C22_Witness ==
    /\ fn = "split_and_compress"
    /\ fn_args[1].mode = "RGB"
    /\ fn_args[1].neutral
    /\ fn_ret.ok
    /\ fn_ret.first.mode = "L"
    /\ fn_ret.second.mode = "L"
    /\ fn_ret.first.subsampling = "none"

\* The step of the estimate for n bytes over pixels pixels: 60 below 0.15 bytes
\* a pixel, 70 below 0.25, 80 below 0.4, 85 below 0.6, 90 from there on.
StepOf(n, pixels) ==
    CHOOSE q \in {60, 70, 80, 85, 90} :
        /\ (q = 60) <=> (n * 100 < 15 * pixels)
        /\ (q = 70) <=> (n * 100 >= 15 * pixels /\ n * 100 < 25 * pixels)
        /\ (q = 80) <=> (n * 100 >= 25 * pixels /\ n * 10 < 4 * pixels)
        /\ (q = 85) <=> (n * 10 >= 4 * pixels /\ n * 10 < 6 * pixels)
        /\ (q = 90) <=> (n * 10 >= 6 * pixels)

\* The JPEG sources of as many pixels as d and at least as many bytes, and
\* those of as many bytes and at least as many pixels.
LongerThan(d) ==
    {e \in EstimateSources : /\ e.readable /\ e.format = "JPEG"
                             /\ e.w * e.h = d.w * d.h /\ e.nbytes >= d.nbytes}

LargerThan(d) ==
    {e \in EstimateSources : /\ e.readable /\ e.format = "JPEG"
                             /\ e.nbytes = d.nbytes /\ e.w * e.h >= d.w * d.h}

\* What C23 says of the estimate q returned for the source d.
EstimateOf(d, q) ==
    /\ ~d.readable => q = 80
    /\ (d.readable /\ d.format # "JPEG") => q = 95
    /\ (d.readable /\ d.format = "JPEG") =>
           /\ q = StepOf(d.nbytes, d.w * d.h)
           /\ \A e \in LongerThan(d) : estimate_jpeg_quality(e) >= q
           /\ \A e \in LargerThan(d) : estimate_jpeg_quality(e) <= q

\* C23: estimate_jpeg_quality returns 95 for a source that opens and is not a
\* JPEG, 80 for bytes that do not open, and for a JPEG one of 60, 70, 80, 85,
\* 90 by the steps at 0.15, 0.25, 0.4 and 0.6 bytes a pixel: never lower for
\* more bytes over the same pixels, never higher for more pixels holding the
\* same bytes.
C23_EstimateIsStepFunction ==
    fn = "estimate_jpeg_quality" => EstimateOf(fn_args[1], fn_ret)

\* A JPEG of 100 pixels in 40 bytes, exactly 0.4 bytes a pixel: the step to
\* 85 is taken.
C23_Witness ==
    /\ fn = "estimate_jpeg_quality"
    /\ fn_args[1].format = "JPEG"
    /\ fn_args[1].w * fn_args[1].h = 100
    /\ fn_args[1].nbytes = 40
    /\ fn_ret = 85

\* The pool has been shut down: the loop was left, by the break of line 325
\* after the shutdown or at the end of the futures.
PoolShut == pc \in {"exit", "write_open", "write", "done"}

\* The loop has read the flag set: it is about to shut the pool down, or has.
FlagSeen == pc = "shutdown" \/ PoolShut

\* A queued task is taken by a worker in this step.
TaskBegins == \E i \in Tasks : fstate[i] = "pending" /\ fstate'[i] = "running"

\* A task a worker runs is run to its end, _process_images_parallel returns
\* only when no worker runs a task, nothing is collected once the flag was
\* seen, and what is in the archive is a whole buffer of a collected result.
InFlightFinishDiscarded ==
    /\ \A i \in Tasks : fstate[i] = "running" => fstate'[i] \in {"running", "finished"}
    /\ (pc = "exit" /\ pc' # "exit") => \A i \in Tasks : fstate[i] # "running"
    /\ FlagSeen => results' = results

ArchiveFromResults ==
    \A k \in 1..Len(archive) :
        /\ archive[k].index \in Range(Keys(results))
        /\ archive[k].data \in Range(Lookup(results, archive[k].index)[3])

\* C24 as stated: once the collecting thread has read the flag set, no queued
\* task begins, the tasks in flight run to their end, the function returns
\* only after them, and their results are discarded.
C24_NoTaskBeginsAfterFlagSeen ==
    /\ [][FlagSeen => ~TaskBegins]_vars
    /\ [][InFlightFinishDiscarded]_vars
    /\ []ArchiveFromResults

\* C24, amended: a worker may still take a queued task between the reading of
\* the flag and the shutdown of the pool; once executor.shutdown has cancelled
\* the queued futures no task begins, the tasks in flight run to their end,
\* the function returns only after them, and their results are discarded.
C24_NoTaskBeginsAfterShutdown ==
    /\ [][PoolShut => ~TaskBegins]_vars
    /\ [][InFlightFinishDiscarded]_vars
    /\ []ArchiveFromResults

\* The pool is shut down on a cancellation, a queued task was cancelled and a
\* worker still runs a task the function waits for.
C24_Witness ==
    /\ pc = "exit"
    /\ cancelled
    /\ \E i \in Tasks : fstate[i] = "cancelled"
    /\ \E j \in Tasks : fstate[j] = "running"

\* The run has a result collection ahead of it: process() has not reached the
\* loop, or as_completed has futures left to yield.
CollectionAhead ==
    /\ N > 0
    /\ \/ pc \in {"start", "submit"}
       \/ pc \in {"loop", "body"} /\ yielded < N

\* C25: a cancel request is never lost: when cancel() was called after the
\* TaskProcessor was created, be it before process() executed its first
\* statement, and a result collection is still ahead, the flag stays set
\* until the loop reads it, and the loop, given its next future, leaves
\* instead of collecting it, so that not all N results are collected.
C25_CancelNeverLost ==
    /\ [][(cancelled /\ CollectionAhead) => cancelled']_vars
    /\ [][(cancelled /\ pc = "loop" /\ yielded' = yielded + 1)
              => (pc' = "shutdown" /\ results' = results)]_vars

\* Task i has a stored result whose pages are in the archive.
Stored(i) == i \in Range(Keys(results)) /\ i \in Written

\* C26: when process() returns from a run that was not cancelled, every task
\* has a stored result whose pages are written or an entry in stats.errors,
\* never both and never neither, and processed_files + len(errors) equals
\* total_files; also with a progress callback that raises.
C26_ResultOrErrorNeverBoth ==
    (pc = "done" /\ ~cancelled /\ ~at_cancel.set) =>
        /\ \A i \in Tasks : Stored(i) <=> (ErrorsOf(i) = {})
        /\ \A i \in Tasks : Cardinality(ErrorsOf(i)) <= 1
        /\ stats.processed_files + Len(stats.errors) = stats.total_files

\* C27: processing never overwrites its input: for every input process()
\* accepts, the output path it computes, in the parent directory of the
\* input, differs from the input path, also for an input that is itself a
\* previous output named <name>_tinypic.cbz.
C27_OutputNeverTheInput ==
    (fn = "output_path" /\ fn_ret.ok) => fn_ret.name # fn_args[1].name

====
